---- MODULE Spec2Model ----
(***************************************************************************)
(* Model of rd (Urgau/rd): the rustdoc-json pretty-printer (src/pp.rs) and *)
(* the HTML renderer that drives it (src/html/render.rs).                  *)
(*                                                                         *)
(* Rust values are modelled as follows.                                    *)
(*   Option<T>      None == <<>>, Some(x) == <<x>>                         *)
(*   Id             a pair <<crate, n>> (the string "crate:n")             *)
(*   enum values    records with a tag field                               *)
(*   Result / panic a pusher record: st is "Ok", "Err" or "Panic"          *)
(* A Vec allocation failure (PusherError) is not modelled: memory is       *)
(* assumed to be available.                                                *)
(***************************************************************************)
EXTENDS Integers, Sequences, FiniteSets, TLC

VARIABLES
    pc,         \* position of the driver: "input", "done", or a renderer step
    item,       \* the Item handed to Tokens::from_item
    index,      \* the crate index: Id -> Item
    result,     \* what Tokens::from_item (Tokens::from_type) returned
    type_in,    \* the Type handed to Tokens::from_type, if any
    link_in,    \* the arguments handed to href or relative, if any
    link,       \* what href (relative) returned for link_in
    tokens_in,  \* the tokens pushed through a NewLineTabulationPusher, if any
    html,       \* the strings TokensToHtml::render wrote for result, once it ran
    headings,   \* a Headings adapter over the events of a documentation text, if any
    events,     \* the events Headings::next has returned so far
    html_ids,   \* page_context.ids: the HtmlIds allocated for the page, in order
    attrs_in,   \* a raw attribute list handed to with_attrs
    pushed,     \* what with_attrs returned for attrs_in on an empty Vec
    stack,      \* the module_page activations of the renderer, innermost last
    fsops,      \* the file-system operations the renderer has performed, in order
    paths,      \* global_context.paths: the ItemPath of every page, in allocation order
    search,     \* the entries of the search index once it is dumped
    run         \* what html::render returned

vars == <<pc, item, index, result, type_in, link_in, link, tokens_in, html, headings, events, html_ids, attrs_in, pushed, stack, fsops, paths, search, run>>
ppvars == <<pc, item, index, result, type_in, link_in, link, tokens_in, html, headings, events, html_ids, attrs_in, pushed>>
htmlvars == <<stack, fsops, paths, search, run>>

----------------------------------------------------------------------------
(* Option *)

None == <<>>
Some(x) == <<x>>
IsSome(o) == o # <<>>
Unwrap(o) == o[1]

----------------------------------------------------------------------------
(* Token and SpecialToken, pp.rs:19-36.  A token is <<kind, text, id>>.    *)

NoId == None

Ident(s, id) == <<"Ident", s, id>>
Kw(s) == <<"Kw", s, NoId>>
Ponct(s) == <<"Ponct", s, NoId>>
Attr(s) == <<"Attr", s, NoId>>
Primitive(s) == <<"Primitive", s, NoId>>
NewLine == <<"Special", "NewLine", NoId>>
Space == <<"Special", "Space", NoId>>
Tabulation == <<"Special", "Tabulation", NoId>>
Hidden(all) == <<"Special", IF all THEN "HiddenAll" ELSE "HiddenSome", NoId>>
Ignored == <<"Special", "Ignored", NoId>>

----------------------------------------------------------------------------
(* Strings that the code inspects byte by byte (raw attributes) are        *)
(* sequences of characters; "E9" stands for the two-byte character U+00E9, *)
(* every other character is one ASCII byte.                                *)

Width(c) == IF c = "E9" THEN 2 ELSE 1

RECURSIVE ByteLen(_)
ByteLen(s) == IF s = <<>> THEN 0 ELSE Width(s[1]) + ByteLen(Tail(s))

RECURSIVE Chars(_)
Chars(s) == IF s = <<>> THEN "" ELSE s[1] \o Chars(Tail(s))

AsciiAlnum ==
    {"a", "b", "c", "d", "e", "f", "g", "h", "i", "j", "k", "l", "m", "n", "o",
     "p", "q", "r", "s", "t", "u", "v", "w", "x", "y", "z", "C", "D"}

----------------------------------------------------------------------------
(* FromItemErrorKind, pp.rs:167-174 *)

InvalidItem == <<"InvalidItem">>
ChildrenNotFound(id) == <<"ChildrenNotFound", id>>
UnexpectedItemType(id, kind) == <<"UnexpectedItemType", id, kind>>
AttributeParsing == <<"AttributeParsing">>

----------------------------------------------------------------------------
(* The token sink.  toks is the Vec; tab says whether pushes go through a  *)
(* NewLineTabulationPusher wrapped around it and nl is that wrapper's flag *)
(* (its field .1).                                                         *)

NewPusher == [st |-> "Ok", toks |-> <<>>, err |-> None, tab |-> FALSE, nl |-> FALSE]

Err(r, e) == IF r.st # "Ok" THEN r ELSE [r EXCEPT !.st = "Err", !.err = e]
Panic(r, msg) == IF r.st # "Ok" THEN r ELSE [r EXCEPT !.st = "Panic", !.err = <<msg>>]

\* impl Pusher for Vec, pp.rs:55-69
Vec_try_push(r, t) == [r EXCEPT !.toks = Append(@, t)]

\* The same with the Tabulation pushed as soon as the NewLine is.
NewLineTabulationPusher_try_push_eager(r, t) ==
    IF t = NewLine THEN Vec_try_push(Vec_try_push(r, t), Tabulation)
    ELSE Vec_try_push(r, t)

\* impl Pusher for NewLineTabulationPusher, pp.rs:84-99
NewLineTabulationPusher_try_push(r, t) ==
    [Vec_try_push(IF r.nl THEN Vec_try_push(r, Tabulation) ELSE r, t)
        EXCEPT !.nl = (t = NewLine)]

try_push(r, t) ==
    IF r.st # "Ok" THEN r
    ELSE IF r.tab THEN NewLineTabulationPusher_try_push(r, t)
    ELSE Vec_try_push(r, t)

\* pp.rs:63-68 and pp.rs:101-109: one push per element, in order
RECURSIVE try_extend_from_slice(_, _)
try_extend_from_slice(r, ts) ==
    IF r.st # "Ok" \/ ts = <<>> THEN r
    ELSE try_extend_from_slice(try_push(r, Head(ts)), Tail(ts))

\* NewLineTabulationPusher::tabulation, pp.rs:75-81: f runs on Self(pusher, true)
\* and the wrapper is dropped when f returns.
unwrapped(inner, r) == [inner EXCEPT !.tab = r.tab, !.nl = r.nl]

tabulation(r, f(_)) ==
    IF r.st # "Ok" THEN r
    ELSE unwrapped(f([r EXCEPT !.tab = TRUE, !.nl = TRUE]), r)

----------------------------------------------------------------------------
(* impl Display for Tokens, pp.rs:136-157 *)

TokenText(t) ==
    IF t[1] = "Attr" THEN Chars(t[2])
    ELSE IF t[1] # "Special" THEN t[2]
    ELSE CASE t[2] = "NewLine" -> "\n"
           [] t[2] = "Space" -> " "
           [] t[2] = "Tabulation" -> "    "
           [] t[2] = "HiddenAll" -> "/* fields hidden */"
           [] t[2] = "HiddenSome" -> "/* some fields hidden */"
           [] t[2] = "Ignored" -> "..."

RECURSIVE Display(_)
Display(toks) == IF toks = <<>> THEN "" ELSE TokenText(toks[1]) \o Display(Tail(toks))

----------------------------------------------------------------------------
(* str slicing.  CharIndexAt(s, b) is the number of characters before byte *)
(* offset b when b is a character boundary of s, and -1 when it is not     *)
(* (b beyond the end, or inside a character).                              *)

CharIndexAt(s, b) ==
    LET ks == {k \in 0..Len(s) : ByteLen(SubSeq(s, 1, k)) = b}
    IN  IF ks = {} THEN -1 ELSE CHOOSE k \in ks : TRUE

IsIdentChar(c) == c \in AsciiAlnum \/ c = "_"

\* str::find(|c| !c.is_ascii_alphanumeric() && c != '_'): the byte offset of
\* the first such character, pp.rs:1381
find_non_ident(s) ==
    LET js == {j \in 1..Len(s) : ~IsIdentChar(s[j])}
    IN  IF js = {} THEN None
        ELSE LET j == CHOOSE j \in js : \A k \in js : j <= k
             IN  Some(ByteLen(SubSeq(s, 1, j - 1)))

\* str::get(from..to): None unless from <= to and both are boundaries
str_get(s, from, to) ==
    IF from > to \/ CharIndexAt(s, from) = -1 \/ CharIndexAt(s, to) = -1 THEN None
    ELSE Some(SubSeq(s, CharIndexAt(s, from) + 1, CharIndexAt(s, to)))

\* pp.rs:10-17
ALLOWED_ATTRIBUTES ==
    { <<"m", "u", "s", "t", "_", "u", "s", "e">>,
      <<"e", "x", "p", "o", "r", "t", "_", "n", "a", "m", "e">>,
      <<"l", "i", "n", "k", "_", "s", "e", "c", "t", "i", "o", "n">>,
      <<"n", "o", "_", "m", "a", "n", "g", "l", "e">>,
      <<"r", "e", "p", "r">>,
      <<"n", "o", "n", "_", "e", "x", "h", "a", "u", "s", "t", "i", "v", "e">> }

\* The expression bound to attr_name in with_attrs, pp.rs:1377-1386:
\* attr[2..] is indexed first (a panic when byte 2 is past the end or inside
\* a character), then searched, then attr.get(2..pos + 2).
attr_name(attr) ==
    IF CharIndexAt(attr, 2) = -1
    THEN [st |-> "Panic", name |-> <<>>]
    ELSE LET rest == SubSeq(attr, CharIndexAt(attr, 2) + 1, Len(attr))
             pos == find_non_ident(rest)
         IN  IF ~IsSome(pos) THEN [st |-> "Err", name |-> <<>>]
             ELSE LET got == str_get(attr, 2, Unwrap(pos) + 2)
                  IN  IF ~IsSome(got) THEN [st |-> "Err", name |-> <<>>]
                      ELSE [st |-> "Ok", name |-> Unwrap(got)]

\* ALLOWED_ATTRIBUTES.contains(&attr_name), pp.rs:1387
is_allowed(name) == name.st = "Ok" /\ name.name \in ALLOWED_ATTRIBUTES

\* with_attr without the NewLine between two printed attributes: the fault
\* the one-attribute-per-line property detects
with_attr_unseparated(r, printed, attr, name) ==
    CASE name.st = "Panic" -> Panic(r, "byte index 2 is out of bounds")
      [] name.st = "Err" -> Err(r, AttributeParsing)
      [] is_allowed(name) -> try_push(r, Attr(attr))
      [] OTHER -> r

\* One iteration of the loop of with_attrs, pp.rs:1376-1394; name is
\* attr_name(attr)
with_attr(r, printed, attr, name) ==
    CASE name.st = "Panic" -> Panic(r, "byte index 2 is out of bounds")
      [] name.st = "Err" -> Err(r, AttributeParsing)
      [] is_allowed(name) ->
            IF printed # 0 THEN try_push(try_push(r, NewLine), Attr(attr))
            ELSE try_push(r, Attr(attr))
      [] OTHER -> r

\* The loop of with_attrs and what follows it, pp.rs:1376-1399, from the
\* i-th attribute on
RECURSIVE with_attrs_from(_, _, _, _)
with_attrs_from(r, attrs, i, printed) ==
    IF r.st # "Ok" THEN r
    ELSE IF i > Len(attrs)
    THEN IF printed # 0 THEN try_push(r, NewLine) ELSE r
    ELSE with_attrs_from(with_attr(r, printed, attrs[i], attr_name(attrs[i])), attrs,
                         i + 1,
                         IF is_allowed(attr_name(attrs[i])) THEN printed + 1 ELSE printed)

\* fn with_attrs, pp.rs:1370-1400
with_attrs(r, attrs) == with_attrs_from(r, attrs, 1, 0)

----------------------------------------------------------------------------
(* Visibility (rustdoc_types) *)

Public == [v |-> "Public", parent |-> NoId, path |-> ""]
Default == [v |-> "Default", parent |-> NoId, path |-> ""]
Crate == [v |-> "Crate", parent |-> NoId, path |-> ""]
Restricted(parent, path) == [v |-> "Restricted", parent |-> parent, path |-> path]

\* with_visibility printing pub(crate) as pub: the fault the visibility table
\* detects
with_visibility_bare(r, visibility) ==
    CASE visibility.v = "Public" ->
            try_extend_from_slice(r, <<Kw("pub"), Space>>)
      [] visibility.v = "Default" -> r
      [] visibility.v = "Crate" ->
            try_extend_from_slice(r, <<Kw("pub"), Space>>)
      [] visibility.v = "Restricted" ->
            try_extend_from_slice(r,
                <<Kw("pub"), Ponct("("), Kw("in"), Space,
                  Ident(visibility.path, Some(visibility.parent)), Ponct(")"), Space>>)

\* fn with_visibility, pp.rs:1340-1368
with_visibility(r, visibility) ==
    CASE visibility.v = "Public" ->
            try_extend_from_slice(r, <<Kw("pub"), Space>>)
      [] visibility.v = "Default" -> r
      [] visibility.v = "Crate" ->
            try_extend_from_slice(r, <<Kw("pub"), Ponct("("), Kw("crate"), Ponct(")"), Space>>)
      [] visibility.v = "Restricted" ->
            try_extend_from_slice(r,
                <<Kw("pub"), Ponct("("), Kw("in"), Space,
                  Ident(visibility.path, Some(visibility.parent)), Ponct(")"), Space>>)

----------------------------------------------------------------------------
(* Control flow around the pusher.  Each takes the pusher first.           *)

\* if cond { tokens.try_extend_from_slice(ts)? }
extend_if(r, cond, ts) == IF cond THEN try_extend_from_slice(r, ts) ELSE r

\* if cond { tokens.try_push(t)? }
push_if(r, cond, t) == IF cond THEN try_push(r, t) ELSE r

\* if let Some(x) = opt { f(tokens, x)? }
if_some(r, opt, f(_, _)) == IF IsSome(opt) THEN f(r, Unwrap(opt)) ELSE r

\* let items = got?; f(tokens, items): got is a collected Result<Vec<_>, _>
resolved(r, got, f(_, _)) == IF got.st # "Ok" THEN Err(r, got.err) ELSE f(r, got.items)

----------------------------------------------------------------------------
(* fn with, pp.rs:1967-2012.  A None before/after/between is the empty     *)
(* slice: either pushes nothing.  The closure f is named by fn and applied *)
(* by call(fn, pusher, item), defined below with the functions it names.   *)

RECURSIVE call(_, _, _)

RECURSIVE with_items(_, _, _, _, _)

\* The loop of with skipping an item equal to the one before it: the fault
\* the order property detects
with_items_deduplicated(r, items, between, fn, i) ==
    IF r.st # "Ok" \/ i > Len(items) THEN r
    ELSE IF i > 1 /\ items[i] = items[i - 1] THEN with_items(r, items, between, fn, i + 1)
    ELSE with_items(call(fn, extend_if(r, i # 1, between), items[i]),
                    items, between, fn, i + 1)

\* The for loop of with, pp.rs:1996-2004, from the i-th item on
with_items(r, items, between, fn, i) ==
    IF r.st # "Ok" \/ i > Len(items) THEN r
    ELSE with_items(call(fn, extend_if(r, i # 1, between), items[i]),
                    items, between, fn, i + 1)

with(r, items, before, after, between, fn) ==
    IF r.st # "Ok" \/ items = <<>> THEN r
    ELSE try_extend_from_slice(
             with_items(try_extend_from_slice(r, before), items, between, fn, 1),
             after)

----------------------------------------------------------------------------
(* Header and Abi (rustdoc_types).  abi is "Rust", or the printed name of  *)
(* any other Abi variant.                                                   *)

Header(const_, unsafe_, async_, abi) ==
    [const_ |-> const_, unsafe_ |-> unsafe_, async_ |-> async_, abi |-> abi]

\* fn with_abi, pp.rs:1045-1081
with_abi(r, abi) ==
    extend_if(r, abi # "Rust",
              <<Kw("extern"), Space, Ponct("\""), Ident(abi, None), Ponct("\""), Space>>)

\* The same with the ABI ahead of the qualifiers.
with_header_abi_first(r, header) ==
    extend_if(
        extend_if(
            extend_if(with_abi(r, header.abi), header.const_, <<Kw("const"), Space>>),
            header.unsafe_, <<Kw("unsafe"), Space>>),
        header.async_, <<Kw("async"), Space>>)

\* fn with_header, pp.rs:1083-1101
with_header(r, header) ==
    with_abi(
        extend_if(
            extend_if(
                extend_if(r, header.const_, <<Kw("const"), Space>>),
                header.unsafe_, <<Kw("unsafe"), Space>>),
            header.async_, <<Kw("async"), Space>>),
        header.abi)

----------------------------------------------------------------------------
(* Type expressions, generics and bounds (rustdoc_types), as tagged        *)
(* records:                                                                *)
(*   Type            [t |-> variant, ...]                                  *)
(*   Path            [name, id, args : Option<GenericArgs>]                *)
(*   GenericArgs     [g |-> "AngleBracketed", args, bindings]              *)
(*                   [g |-> "Parenthesized", inputs, output]               *)
(*   GenericArg      [a |-> "Lifetime" | "Type" | "Infer" | "Const", ...]  *)
(*   TypeBinding     [name, binding |-> [b |-> "Equality", term]           *)
(*                                     | [b |-> "Constraint", bounds]]     *)
(*   Term            [tm |-> "Type", type_] | [tm |-> "Constant"]          *)
(*   GenericBound    [b |-> "TraitBound", trait_, generic_params, modifier]*)
(*                   [b |-> "Outlives", v]                                 *)
(*   GenericParamDef [name, kind |-> [k |-> "Lifetime", outlives]          *)
(*                                 | [k |-> "Type", bounds, default,       *)
(*                                    synthetic]                           *)
(*                                 | [k |-> "Const", type_, default]]      *)
(*   WherePredicate  [w |-> "BoundPredicate", type_, bounds,               *)
(*                    generic_params]                                      *)
(*                   [w |-> "LifetimePredicate", lifetime, outlives]       *)
(*                   [w |-> "EqPredicate", lhs, rhs]                       *)
(*                                                                         *)
(* The functions printing types, paths, generic arguments, bounds and      *)
(* generic parameters call one another.  Such a call to function fn is     *)
(* written call(fn, pusher, argument).                                     *)

CommaSpace == <<Ponct(","), Space>>
SpacePlusSpace == <<Space, Ponct("+"), Space>>
Arrow == <<Space, Ponct("-"), Ponct(">"), Space>>

\* fn with_outlive, pp.rs:1448-1454, and the closure of pp.rs:1571-1574
with_outlive(r, outlive) == try_push(r, Ident(outlive, None))

\* if let Some(output) = output { " -> "; with_type(tokens, output)? }, as at
\* pp.rs:1180-1189, 1729-1737 and 1838-1847
with_output(r, output) ==
    IF IsSome(output) THEN call("with_type", try_extend_from_slice(r, Arrow), Unwrap(output))
    ELSE r

\* The match on a Term, pp.rs:1470-1473 and 1638-1641
with_term(r, term) ==
    IF term.tm = "Type" THEN call("with_type", r, term.type_)
    ELSE Panic(r, "not yet implemented: un-handle constant")

\* generic_params.iter().position(|x| !matches!(x.kind, Lifetime {..}))
\* .unwrap_or(len), pp.rs:1507-1513: the lifetimes are generic_params[..pivot]
pivot(generic_params) ==
    LET notlt == {i \in 1..Len(generic_params) : generic_params[i].kind.k # "Lifetime"}
    IN  IF notlt = {} THEN Len(generic_params)
        ELSE (CHOOSE i \in notlt : \A j \in notlt : i <= j) - 1

\* The modifier of a trait bound, pp.rs:1494-1502
with_modifier(r, modifier) ==
    CASE modifier = "None" -> r
      [] modifier = "Maybe" -> try_push(r, Kw("?"))
      [] modifier = "MaybeConst" -> try_push(r, Kw("?const"))

\* fn with_generic_bound, pp.rs:1484-1538
with_generic_bound(r, generic_bound) ==
    IF generic_bound.b = "Outlives" THEN try_push(r, Ident(generic_bound.v, None))
    ELSE with(
             call("with_path",
                  with(with_modifier(r, generic_bound.modifier),
                       SubSeq(generic_bound.generic_params, 1,
                              pivot(generic_bound.generic_params)),
                       <<Ponct("for"), Ponct("<")>>, <<Ponct(">"), Space>>, CommaSpace,
                       "with_generic_param_def"),
                  generic_bound.trait_),
             SubSeq(generic_bound.generic_params, pivot(generic_bound.generic_params) + 1,
                    Len(generic_bound.generic_params)),
             <<>>, <<>>, SpacePlusSpace, "with_generic_param_def")

\* fn with_generic_param_def, pp.rs:1553-1622
with_generic_param_def(r, generic_param_def) ==
    CASE generic_param_def.kind.k = "Lifetime" ->
            with(try_push(r, Ident(generic_param_def.name, None)),
                 generic_param_def.kind.outlives,
                 <<Ponct(":"), Space>>, <<>>, SpacePlusSpace, "with_outlive")
      [] generic_param_def.kind.k = "Type" ->
            IF ~generic_param_def.kind.synthetic
            THEN if_some(
                     with(try_push(r, Ident(generic_param_def.name, None)),
                          generic_param_def.kind.bounds,
                          <<Ponct(":"), Space>>, <<>>, SpacePlusSpace, "with_generic_bound"),
                     generic_param_def.kind.default,
                     LAMBDA p, default :
                         call("with_type",
                              try_extend_from_slice(p, <<Space, Ponct("="), Space>>),
                              default))
            ELSE r
      [] generic_param_def.kind.k = "Const" ->
            if_some(
                call("with_type",
                     try_extend_from_slice(r,
                         <<Kw("const"), Space, Ident(generic_param_def.name, None),
                           Ponct(":"), Space>>),
                     generic_param_def.kind.type_),
                generic_param_def.kind.default,
                LAMBDA p, default :
                    try_extend_from_slice(p,
                        <<Space, Ponct("="), Space, Ident(default, None)>>))

\* fn with_type_binding, pp.rs:1624-1652
with_type_binding(r, type_bindind) ==
    IF type_bindind.binding.b = "Equality"
    THEN with_term(
             try_extend_from_slice(r,
                 <<Ident(type_bindind.name, None), Space, Ponct("="), Space>>),
             type_bindind.binding.term)
    ELSE with(r, type_bindind.binding.bounds, <<>>, <<>>, CommaSpace, "with_generic_bound")

\* fn with_generic_arg, pp.rs:1654-1687
with_generic_arg(r, generic_arg) ==
    CASE generic_arg.a = "Lifetime" -> try_push(r, Ident(generic_arg.v, None))
      [] generic_arg.a = "Type" -> call("with_type", r, generic_arg.type_)
      [] generic_arg.a = "Infer" -> try_push(r, Kw("_"))
      [] generic_arg.a = "Const" ->
            if_some(
                try_extend_from_slice(r,
                    <<Kw("const"), Space, Ident(generic_arg.expr, None), Ponct(":"),
                      Space, Ident("?", None)>>),
                generic_arg.value,
                LAMBDA p, value :
                    try_extend_from_slice(p,
                        <<Space, Ponct("="), Space, Ident(value, None)>>))

\* fn with_generic_args, pp.rs:1689-1741
with_generic_args(r, generic_args) ==
    IF generic_args.g = "AngleBracketed"
    THEN IF generic_args.args # <<>> \/ generic_args.bindings # <<>>
         THEN try_push(
                  with(with(try_push(r, Ponct("<")), generic_args.args, <<>>, <<>>,
                            CommaSpace, "with_generic_arg"),
                       generic_args.bindings,
                       IF generic_args.args # <<>> THEN CommaSpace ELSE <<>>,
                       <<>>, CommaSpace, "with_type_binding"),
                  Ponct(">"))
         ELSE r
    ELSE with_output(
             with(r, generic_args.inputs, <<Ponct("(")>>, <<Ponct(")")>>, CommaSpace,
                  "with_type"),
             generic_args.output)

\* fn with_poly_trait, pp.rs:1743-1757
with_poly_trait(r, poly_trait) ==
    call("with_path",
         with(r, poly_trait.generic_params, <<Kw("for"), Ponct("<")>>, <<Ponct(">")>>,
              CommaSpace, "with_generic_param_def"),
         poly_trait.trait_)

\* fn with_path, pp.rs:1759-1777
with_path(r, path) ==
    if_some(try_push(r, Ident(path.name, Some(path.id))), path.args,
            LAMBDA p, args : call("with_generic_args", p, args))

\* The closure over the inputs of a function pointer, pp.rs:1829-1836:
\* input is (name, type) and only the type is printed
with_fn_pointer_input(r, input) == call("with_type", r, input[2])

\* fn with_type, pp.rs:1791-1965
with_type(r, type_) ==
    CASE type_.t = "ResolvedPath" -> call("with_path", r, type_.path)
      [] type_.t = "Generic" -> try_push(r, Ident(type_.name, None))
      [] type_.t = "Primitive" ->
            IF type_.name = "never" THEN try_push(r, Ident("!", None))
            ELSE try_push(r, Primitive(type_.name))
      [] type_.t = "FunctionPointer" ->
            with_output(
                try_push(
                    with(try_push(
                             with(try_push(with_header(r, type_.header), Kw("fn")),
                                  type_.generic_params, <<Ponct("<")>>, <<Ponct(">")>>,
                                  CommaSpace, "with_generic_param_def"),
                             Ponct("(")),
                         type_.inputs, <<>>, <<>>, CommaSpace, "with_fn_pointer_input"),
                    Ponct(")")),
                type_.output)
      [] type_.t = "Tuple" ->
            try_push(with(try_push(r, Ponct("(")), type_.types, <<>>, <<>>, CommaSpace,
                          "with_type"),
                     Ponct(")"))
      [] type_.t = "Slice" ->
            try_push(call("with_type", try_push(r, Ponct("[")), type_.type_), Ponct("]"))
      [] type_.t = "Array" ->
            try_extend_from_slice(
                call("with_type", try_push(r, Ponct("[")), type_.type_),
                <<Ponct(";"), Space, Ident(type_.len, None), Ponct("]")>>)
      [] type_.t = "ImplTrait" ->
            with(r, type_.bounds, <<Kw("impl"), Space>>, <<>>, SpacePlusSpace,
                 "with_generic_bound")
      [] type_.t = "Infer" -> try_push(r, Ident("_", None))
      [] type_.t = "RawPointer" ->
            call("with_type",
                 try_extend_from_slice(r,
                     <<Kw("*"), Kw(IF type_.mutable THEN "mut" ELSE "const"), Space>>),
                 type_.type_)
      [] type_.t = "DynTrait" ->
            if_some(
                with(try_push(r, Kw("dyn")), type_.traits, <<Space>>, <<>>,
                     SpacePlusSpace, "with_poly_trait"),
                type_.lifetime,
                LAMBDA p, lifetime :
                    try_extend_from_slice(p, <<Space, Ponct("+"), Ident(lifetime, None)>>))
      [] type_.t = "BorrowedRef" ->
            call("with_type",
                 extend_if(
                     if_some(try_push(r, Kw("&")), type_.lifetime,
                             LAMBDA p, lifetime :
                                 try_extend_from_slice(p, <<Ident(lifetime, None), Space>>)),
                     type_.mutable, <<Kw("mut"), Space>>),
                 type_.type_)
      [] type_.t = "QualifiedPath" ->
            IF IsSome(type_.trait_)
            THEN call("with_generic_args",
                      try_extend_from_slice(
                          call("with_path",
                               try_extend_from_slice(
                                   call("with_type", try_push(r, Ponct("<")),
                                        type_.self_type),
                                   <<Space, Kw("as"), Space>>),
                               Unwrap(type_.trait_)),
                          <<Ponct(">"), Ponct("::"), Ident(type_.name, None)>>),
                      type_.args)
            ELSE call("with_generic_args",
                      try_extend_from_slice(call("with_type", r, type_.self_type),
                                            <<Ponct("::"), Ident(type_.name, None)>>),
                      type_.args)
      [] type_.t = "Pat" -> Panic(r, "not yet implemented: Type::Pat is unstable")

\* fn with_opt_type, pp.rs:1779-1789
with_opt_type(r, type_) ==
    IF IsSome(type_) THEN call("with_type", r, Unwrap(type_)) ELSE try_push(r, Ponct("_"))

\* fn with_where_predicate, pp.rs:1402-1482
with_where_predicate(r, where_predicate) ==
    CASE where_predicate.w = "BoundPredicate" ->
            with(try_extend_from_slice(
                     with(call("with_type", r, where_predicate.type_),
                          where_predicate.generic_params,
                          <<Space, Kw("for"), Ponct("<")>>, <<Ponct(">"), Space>>,
                          CommaSpace, "with_generic_param_def"),
                     <<Ponct(":"), Space>>),
                 where_predicate.bounds, <<>>, <<>>, SpacePlusSpace, "with_generic_bound")
      [] where_predicate.w = "LifetimePredicate" ->
            with(try_extend_from_slice(r,
                     <<Ident(where_predicate.lifetime, None), Ponct(":"), Space>>),
                 where_predicate.outlives, <<>>, <<>>, SpacePlusSpace, "with_outlive")
      [] where_predicate.w = "EqPredicate" ->
            with_term(
                try_extend_from_slice(call("with_type", r, where_predicate.lhs),
                                      <<Ponct(":"), Space>>),
                where_predicate.rhs)

\* The closure printing one function input, pp.rs:1137-1144 and 1160-1167
with_input(r, input) ==
    call("with_type",
         extend_if(r, input[1] # "self", <<Ident(input[1], None), Ponct(":"), Space>>),
         input[2])

\* The call f(tokens, item) of a function or closure named fn
call(fn, r, x) ==
    CASE fn = "with_type" -> with_type(r, x)
      [] fn = "with_path" -> with_path(r, x)
      [] fn = "with_generic_args" -> with_generic_args(r, x)
      [] fn = "with_generic_arg" -> with_generic_arg(r, x)
      [] fn = "with_type_binding" -> with_type_binding(r, x)
      [] fn = "with_generic_bound" -> with_generic_bound(r, x)
      [] fn = "with_generic_param_def" -> with_generic_param_def(r, x)
      [] fn = "with_poly_trait" -> with_poly_trait(r, x)
      [] fn = "with_outlive" -> with_outlive(r, x)
      [] fn = "with_fn_pointer_input" -> with_fn_pointer_input(r, x)
      [] fn = "with_opt_type" -> with_opt_type(r, x)
      [] fn = "with_where_predicate" -> with_where_predicate(r, x)
      [] fn = "with_input" -> with_input(r, x)

\* str::starts_with("impl") over the parameter names the model uses
starts_with_impl(name) == name \in {"impl Copy", "impl Into<T>", "implT"}

\* fn without_impl, pp.rs:1540-1551: the slice up to the last parameter that
\* is not a type parameter whose name starts with "impl".
without_impl(items) ==
    LET keep == {i \in 1..Len(items) :
                    ~(items[i].kind.k = "Type" /\ starts_with_impl(items[i].name))}
        until == IF keep = {} THEN 0 ELSE CHOOSE i \in keep : \A j \in keep : j <= i
    IN  SubSeq(items, 1, until)

----------------------------------------------------------------------------
(* Items (rustdoc_types): [id, name, visibility, attrs, inner], inner a    *)
(* record tagged by i.  The index is a function Id -> Item; index.get(id)  *)
(* is Some exactly for id \in DOMAIN index.                                *)

WhereBefore == <<NewLine, Kw("where"), NewLine, Tabulation>>
WhereBetween == <<Ponct(","), NewLine, Tabulation>>

\* with(.., generics.params, "<", ">", ", ", with_generic_param_def), as at pp.rs:343-350
with_generic_params(r, params) ==
    with(r, params, <<Ponct("<")>>, <<Ponct(">")>>, CommaSpace, "with_generic_param_def")

\* The name pushed after the kind keyword, as at pp.rs:338-341
with_opt_name(r, it) ==
    if_some(r, it.name,
            LAMBDA p, name : try_extend_from_slice(p, <<Space, Ident(name, Some(it.id))>>))

\* ids.iter().map(|id| match index.get(id) {..}).collect::<Result<Vec<_>, _>>(),
\* as at pp.rs:380-392: the resolved children, or the first failure in list
\* order.  tag is the ItemEnum variant matched, expected the ItemKind reported.
resolve(idx, ids, tag, expected) ==
    LET bad == {i \in 1..Len(ids) :
                   ids[i] \notin DOMAIN idx \/ idx[ids[i]].inner.i # tag}
    IN  IF bad = {}
        THEN [st |-> "Ok", items |-> [i \in 1..Len(ids) |-> idx[ids[i]]], err |-> None]
        ELSE LET i == CHOOSE i \in bad : \A j \in bad : i <= j
             IN  [st |-> "Err", items |-> <<>>,
                  err |-> IF ids[i] \notin DOMAIN idx
                          THEN ChildrenNotFound(ids[i])
                          ELSE UnexpectedItemType(ids[i], expected)]

\* The same chain over Option<Id> (tuple fields), as at pp.rs:422-442: a None
\* position stays None.
resolve_opt(idx, ids, tag, expected) ==
    LET bad == {i \in 1..Len(ids) :
                   IsSome(ids[i]) /\ (Unwrap(ids[i]) \notin DOMAIN idx
                                      \/ idx[Unwrap(ids[i])].inner.i # tag)}
    IN  IF bad = {}
        THEN [st |-> "Ok",
              items |-> [i \in 1..Len(ids) |->
                            IF IsSome(ids[i]) THEN Some(idx[Unwrap(ids[i])]) ELSE None],
              err |-> None]
        ELSE LET i == CHOOSE i \in bad : \A j \in bad : i <= j
             IN  [st |-> "Err", items |-> <<>>,
                  err |-> IF Unwrap(ids[i]) \notin DOMAIN idx
                          THEN ChildrenNotFound(Unwrap(ids[i]))
                          ELSE UnexpectedItemType(Unwrap(ids[i]), expected)]

\* fn with_struct_field, pp.rs:1228-1244
with_struct_field(r, it, struct_field) ==
    call("with_type",
         if_some(with_visibility(with_attrs(r, it.attrs), it.visibility), it.name,
                 LAMBDA p, name :
                     try_extend_from_slice(p, <<Ident(name, None), Ponct(":"), Space>>)),
         struct_field)

\* The loop over the fields of a struct-kind variant, pp.rs:1314-1320, from
\* the i-th field on
RECURSIVE variant_fields(_, _, _)
variant_fields(r, items, i) ==
    IF r.st # "Ok" \/ i > Len(items) THEN r
    ELSE variant_fields(
             with_struct_field(extend_if(r, i # 1, CommaSpace), items[i],
                               items[i].inner.type_),
             items, i + 1)

\* The body of a struct-kind variant once its fields are resolved, pp.rs:1313-1333
variant_struct_body(r, items, fields_stripped) ==
    try_extend_from_slice(
        IF items # <<>>
        THEN extend_if(variant_fields(r, items, 1), fields_stripped,
                       <<Ponct(","), Space, Ponct("...")>>)
        ELSE IF fields_stripped THEN try_push(r, Ponct("_"))
        ELSE Panic(r, "unreachable: Enum with 0 variants and non-stripped"),
        <<Space, Ponct("}")>>)

\* The types of resolved tuple fields, pp.rs:1296-1300
field_types(items) ==
    [i \in 1..Len(items) |->
        IF IsSome(items[i]) THEN Some(Unwrap(items[i]).inner.type_) ELSE None]

\* The match on enum_variant.kind, pp.rs:1255-1335
variant_kind(r, idx, enum_variant) ==
    CASE enum_variant.kind.v = "Plain" ->
            if_some(r, enum_variant.discriminant,
                    LAMBDA p, discriminant :
                        try_extend_from_slice(p,
                            <<Space, Ponct("="), Space, Ident(discriminant, None)>>))
      [] enum_variant.kind.v = "Tuple" ->
            resolved(r, resolve_opt(idx, enum_variant.kind.fields, "StructField",
                                    "StructField"),
                     LAMBDA p, items :
                         with(p, field_types(items), <<Ponct("(")>>, <<Ponct(")")>>,
                              CommaSpace, "with_opt_type"))
      [] enum_variant.kind.v = "Struct" ->
            resolved(try_extend_from_slice(r, <<Space, Ponct("{"), Space>>),
                     resolve(idx, enum_variant.kind.fields, "StructField", "StructField"),
                     LAMBDA p, items :
                         variant_struct_body(p, items, enum_variant.kind.fields_stripped))

\* fn with_enum_variant, pp.rs:1246-1338
with_enum_variant(r, idx, it, enum_variant) ==
    IF r.st # "Ok" THEN r
    ELSE IF ~IsSome(it.name) THEN Panic(r, "called Option::unwrap() on a None value")
    ELSE variant_kind(try_push(r, Ident(Unwrap(it.name), None)), idx, enum_variant)

\* The parameter list between the parentheses, pp.rs:1130-1178
with_inputs(r, decl) ==
    IF Len(decl.inputs) <= 2
    THEN with(r, decl.inputs, <<>>, <<>>, CommaSpace, "with_input")
    ELSE with(r, decl.inputs, <<NewLine, Tabulation>>, <<NewLine>>,
              <<Ponct(","), NewLine, Tabulation>>, "with_input")

\* The "..." closing a variadic parameter list
with_c_variadic(r, decl) ==
    IF decl.c_variadic
    THEN try_push(extend_if(r, Len(decl.inputs) >= 1, CommaSpace), Kw("..."))
    ELSE r

\* function_body closing an elided body with a semicolon: the fault the
\* function terminator property detects
function_body_semi(r, function) ==
    IF function.has_body
    THEN try_extend_from_slice(r, <<Space, Ponct("{"), Space, Ignored, Space, Ponct("}"),
                                    Ponct(";")>>)
    ELSE try_push(r, Ponct(";"))

\* The terminator of a function that is not standalone, pp.rs:1207-1223
function_body(r, function) ==
    IF function.has_body
    THEN try_extend_from_slice(
             IF function.generics.where_predicates = <<>>
             THEN try_push(r, Space)
             ELSE try_extend_from_slice(r, <<Ponct(","), NewLine>>),
             <<Ponct("{"), Space, Ignored, Space, Ponct("}")>>)
    ELSE try_push(r, Ponct(";"))

\* if !standalone { .. }, pp.rs:1207
push_body_unless(r, standalone, function) ==
    IF ~standalone THEN function_body(r, function) ELSE r

\* The where clause of a function or an associated type, pp.rs:1191-1205
\* and 1022-1036
where_unclosed(r, where_predicates) ==
    with(r, where_predicates, WhereBefore, <<>>, WhereBetween, "with_where_predicate")

\* fn with_function, pp.rs:1103-1226
with_function(r, it, function, standalone) ==
    push_body_unless(
        where_unclosed(
            with_output(
                try_push(
                    with_c_variadic(
                        with_inputs(
                            try_push(
                                with_generic_params(
                                    with_opt_name(
                                        try_push(
                                            with_header(
                                                with_visibility(with_attrs(r, it.attrs),
                                                                it.visibility),
                                                function.header),
                                            Kw("fn")),
                                        it),
                                    without_impl(function.generics.params)),
                                Ponct("(")),
                            function.decl),
                        function.decl),
                    Ponct(")")),
                function.decl.output),
            function.generics.where_predicates),
        standalone, function)

\* fn with_assoc_const, pp.rs:949-978
with_assoc_const(r, it, type_, default, standalone) ==
    IF r.st # "Ok" THEN r
    ELSE IF ~IsSome(it.name) THEN
        Panic(try_extend_from_slice(r, <<Kw("const"), Space>>),
              "called Option::unwrap() on a None value")
    ELSE push_if(
             if_some(
                 call("with_type",
                      try_extend_from_slice(r,
                          <<Kw("const"), Space, Ident(Unwrap(it.name), Some(it.id)),
                            Ponct(":"), Space>>),
                      type_),
                 default,
                 LAMBDA p, d :
                     try_extend_from_slice(p, <<Space, Ponct("="), Space, Ident(d, None)>>)),
             ~standalone, Ponct(";"))

\* fn with_assoc_type, pp.rs:980-1043
with_assoc_type(r, it, bounds, default, generics, standalone) ==
    IF r.st # "Ok" THEN r
    ELSE IF ~IsSome(it.name) THEN
        Panic(try_extend_from_slice(r, <<Kw("type"), Space>>),
              "called Option::unwrap() on a None value")
    ELSE push_if(
             where_unclosed(
                 if_some(
                     with(with_generic_params(
                              try_extend_from_slice(r,
                                  <<Kw("type"), Space, Ident(Unwrap(it.name), Some(it.id))>>),
                              generics.params),
                          bounds, <<Ponct(":"), Space>>, <<>>, CommaSpace,
                          "with_generic_bound"),
                     default,
                     LAMBDA p, d :
                         call("with_type",
                              try_extend_from_slice(p, <<Space, Ponct("="), Space>>), d)),
                 generics.where_predicates),
             ~standalone, Ponct(";"))

----------------------------------------------------------------------------
(* Tokens::from_item, pp.rs:202-946, one operator per match arm.           *)

\* The common head of an item: attributes, visibility, keyword, name, as at
\* pp.rs:335-341
item_head(it, kw) ==
    with_opt_name(
        try_push(with_visibility(with_attrs(NewPusher, it.attrs), it.visibility), Kw(kw)),
        it)

\* The braces left empty, as at pp.rs:410-414
hidden_all(r, stripped) == extend_if(r, stripped, <<Space, Hidden(TRUE), Space>>)

\* hidden_some pushing the other placeholder: the fault the hidden-fields
\* distinction detects
hidden_some_as_all(r, stripped) == extend_if(r, stripped, <<NewLine, Hidden(TRUE)>>)

\* The placeholder closing a stripped list, as at pp.rs:402-405
hidden_some(r, stripped) == extend_if(r, stripped, <<NewLine, Hidden(FALSE)>>)

\* The loop over the fields of a record struct, pp.rs:396-401, from the i-th
\* field on
RECURSIVE struct_fields(_, _, _)
struct_fields(r, items, i) ==
    IF r.st # "Ok" \/ i > Len(items) THEN r
    ELSE struct_fields(
             try_push(with_struct_field(try_push(r, NewLine), items[i],
                                        items[i].inner.type_),
                      Ponct(",")),
             items, i + 1)

\* The record body of a struct once its fields are resolved, pp.rs:394-416
struct_plain_body(r, items, fields_stripped) ==
    try_push(
        IF items # <<>>
        THEN try_push(
                 tabulation(r, LAMBDA p :
                     hidden_some(struct_fields(p, items, 1), fields_stripped)),
                 NewLine)
        ELSE hidden_all(r, fields_stripped),
        Ponct("}"))

\* The loop over the fields of a union, pp.rs:310-318, from the i-th field on
RECURSIVE union_fields(_, _, _)
union_fields(r, items, i) ==
    IF r.st # "Ok" \/ i > Len(items) THEN r
    ELSE union_fields(
             try_push(with_struct_field(push_if(r, i # 1, NewLine), items[i],
                                        items[i].inner.type_),
                      Ponct(",")),
             items, i + 1)

\* The body of a union once its fields are resolved, pp.rs:306-329
union_body(r, items, fields_stripped) ==
    try_push(
        IF items # <<>>
        THEN try_push(
                 tabulation(r, LAMBDA p :
                     hidden_some(union_fields(try_push(p, NewLine), items, 1),
                                 fields_stripped)),
                 NewLine)
        ELSE hidden_all(r, fields_stripped),
        Ponct("}"))

\* The loop over the variants of an enum, pp.rs:534-539, from the i-th
\* variant on
RECURSIVE enum_variants(_, _, _, _)
enum_variants(r, idx, items, i) ==
    IF r.st # "Ok" \/ i > Len(items) THEN r
    ELSE enum_variants(
             try_push(with_enum_variant(try_push(r, NewLine), idx, items[i],
                                        items[i].inner),
                      Ponct(",")),
             idx, items, i + 1)

\* The body of an enum once its variants are resolved, pp.rs:532-552
enum_body(r, idx, items, variants_stripped) ==
    try_push(
        IF items # <<>>
        THEN try_push(
                 tabulation(r, LAMBDA p :
                     hidden_some(enum_variants(p, idx, items, 1), variants_stripped)),
                 NewLine)
        ELSE hidden_all(r, variants_stripped),
        Ponct("}"))

\* The where clause of a struct, union or trait, as at pp.rs:352-368
where_clause(r, where_predicates) ==
    with(r, where_predicates, WhereBefore, <<Ponct(","), NewLine>>, WhereBetween,
         "with_where_predicate")

\* open_brace with the space pushed unconditionally: the fault the rendering
\* of the Point fixture detects
open_brace_spaced(r, where_predicates) == try_push(try_push(r, Space), Ponct("{"))

\* The opening brace, after a space when there is no where clause, as at
\* pp.rs:375-378
open_brace(r, where_predicates) ==
    try_push(push_if(r, where_predicates = <<>>, Space), Ponct("{"))

\* ItemEnum::Union, pp.rs:248-331
from_item_Union(it, idx) ==
    resolved(
        open_brace(
            where_clause(
                with_generic_params(item_head(it, "union"), it.inner.generics.params),
                it.inner.generics.where_predicates),
            it.inner.generics.where_predicates),
        resolve(idx, it.inner.fields, "StructField", "StructField"),
        LAMBDA p, items : union_body(p, items, it.inner.fields_stripped))

\* One field of a tuple struct, pp.rs:449-456
tuple_field(r, field) ==
    IF IsSome(field)
    THEN call("with_type", with_visibility(r, Unwrap(field).visibility),
              Unwrap(field).inner.type_)
    ELSE try_push(r, Ponct("_"))

\* The loop over the fields of a tuple struct, pp.rs:444-457, from the i-th
\* field on
RECURSIVE tuple_fields(_, _, _)
tuple_fields(r, items, i) ==
    IF r.st # "Ok" \/ i > Len(items) THEN r
    ELSE tuple_fields(tuple_field(extend_if(r, i # 1, CommaSpace), items[i]),
                      items, i + 1)

\* The tuple body of a struct once its fields are resolved, pp.rs:444-460
struct_tuple_body(r, items) ==
    try_extend_from_slice(tuple_fields(r, items, 1), <<Ponct(")"), Ponct(";")>>)

\* The match on struct_.kind, pp.rs:370-465.  r holds the tokens up to the
\* where clause.
struct_kind(r, idx, struct_) ==
    CASE struct_.kind.s = "Plain" ->
            resolved(
                open_brace(r, struct_.generics.where_predicates),
                resolve(idx, struct_.kind.fields, "StructField", "StructField"),
                LAMBDA p, items : struct_plain_body(p, items, struct_.kind.fields_stripped))
      [] struct_.kind.s = "Tuple" ->
            resolved(
                try_push(r, Ponct("(")),
                resolve_opt(idx, struct_.kind.fields, "StructField", "StructField"),
                struct_tuple_body)
      [] struct_.kind.s = "Unit" -> try_push(r, Ponct(";"))

\* ItemEnum::Struct, pp.rs:332-468
from_item_Struct(it, idx) ==
    struct_kind(
        where_clause(
            with_generic_params(item_head(it, "struct"), it.inner.generics.params),
            it.inner.generics.where_predicates),
        idx, it.inner)

\* ItemEnum::Enum, pp.rs:476-554
from_item_Enum(it, idx) ==
    resolved(
        try_extend_from_slice(
            with(with_generic_params(item_head(it, "enum"), it.inner.generics.params),
                 it.inner.generics.where_predicates, WhereBefore, <<Ponct(",")>>,
                 WhereBetween, "with_where_predicate"),
            <<Space, Ponct("{")>>),
        resolve(idx, it.inner.variants, "Variant", "Variant"),
        LAMBDA p, items : enum_body(p, idx, items, it.inner.variants_stripped))

\* The match on a trait member, pp.rs:641-660
trait_member_kind(r, id, member) ==
    CASE member.inner.i = "AssocConst" ->
            with_assoc_const(r, member, member.inner.type_, member.inner.default, FALSE)
      [] member.inner.i = "AssocType" ->
            with_assoc_type(r, member, member.inner.bounds, member.inner.default,
                            member.inner.generics, FALSE)
      [] member.inner.i = "Function" -> with_function(r, member, member.inner, FALSE)
      [] OTHER -> Err(r, UnexpectedItemType(id, "Trait"))

\* One iteration of the loop over trait_.items, pp.rs:636-665
trait_member(r, idx, id) ==
    IF id \notin DOMAIN idx THEN Err(try_push(r, NewLine), ChildrenNotFound(id))
    ELSE try_push(trait_member_kind(try_push(r, NewLine), id, idx[id]), NewLine)

\* The loop over trait_.items, pp.rs:636-665, from the i-th member on
RECURSIVE trait_members(_, _, _, _)
trait_members(r, idx, ids, i) ==
    IF r.st # "Ok" \/ i > Len(ids) THEN r
    ELSE trait_members(trait_member(r, idx, ids[i]), idx, ids, i + 1)

\* The qualifiers of a trait, pp.rs:575-583
trait_qualifiers(r, trait_) ==
    extend_if(extend_if(r, trait_.is_unsafe, <<Kw("unsafe"), Space>>),
              trait_.is_auto, <<Kw("auto"), Space>>)

\* ItemEnum::Trait, pp.rs:569-672
from_item_Trait(it, idx) ==
    try_push(
        tabulation(
            open_brace(
                where_clause(
                    with(with_generic_params(
                             with_opt_name(
                                 try_push(
                                     trait_qualifiers(
                                         with_visibility(with_attrs(NewPusher, it.attrs),
                                                         it.visibility),
                                         it.inner),
                                     Kw("trait")),
                                 it),
                             it.inner.generics.params),
                         it.inner.bounds, <<Ponct(":"), Space>>, <<>>, SpacePlusSpace,
                         "with_generic_bound"),
                    it.inner.generics.where_predicates),
                it.inner.generics.where_predicates),
            LAMBDA p : trait_members(p, idx, it.inner.items, 1)),
        Ponct("}"))

\* ItemEnum::TraitAlias, pp.rs:673-731
from_item_TraitAlias(it, idx) ==
    try_push(
        with(with(try_extend_from_slice(
                      with_generic_params(item_head(it, "trait"),
                                          it.inner.generics.params),
                      <<Space, Ponct("="), Space>>),
                  it.inner.params, <<>>, <<>>, SpacePlusSpace, "with_generic_bound"),
             it.inner.generics.where_predicates, WhereBefore, <<>>, WhereBetween,
             "with_where_predicate"),
        Ponct(";"))

\* impl [!]Trait for, pp.rs:750-765
impl_trait(r, impl_) ==
    IF IsSome(impl_.trait_)
    THEN try_extend_from_slice(
             call("with_path", push_if(r, impl_.negative, Ponct("!")),
                  Unwrap(impl_.trait_)),
             <<Space, Kw("for"), Space>>)
    ELSE r

\* ItemEnum::Impl, pp.rs:732-788
from_item_Impl(it, idx) ==
    with(call("with_type",
              impl_trait(
                  try_push(
                      with_generic_params(
                          try_push(
                              extend_if(with_attrs(NewPusher, it.attrs),
                                        it.inner.is_unsafe, <<Kw("unsafe"), Space>>),
                              Kw("impl")),
                          it.inner.generics.params),
                      Space),
                  it.inner),
              IF IsSome(it.inner.blanket_impl) THEN Unwrap(it.inner.blanket_impl)
              ELSE it.inner.for_),
         it.inner.generics.where_predicates, WhereBefore, <<Ponct(",")>>, WhereBetween,
         "with_where_predicate")

\* The tokens after the name of a type alias, pp.rs:800-833
type_alias_rest(r, typealias) ==
    try_push(
        with(call("with_type",
                  try_extend_from_slice(
                      with_generic_params(r, typealias.generics.params),
                      <<Space, Ponct("="), Space>>),
                  typealias.type_),
             typealias.generics.where_predicates, WhereBefore, <<Ponct(",")>>,
             <<Ponct(","), NewLine, Space>>, "with_where_predicate"),
        Ponct(";"))

\* item.name.as_ref().unwrap(), then f on the pusher and the name
unwrap_name(r, it, f(_, _)) ==
    IF r.st # "Ok" THEN r
    ELSE IF ~IsSome(it.name) THEN Panic(r, "called Option::unwrap() on a None value")
    ELSE f(r, Unwrap(it.name))

\* ItemEnum::TypeAlias, pp.rs:789-835
from_item_TypeAlias(it, idx) ==
    unwrap_name(
        with_visibility(with_attrs(NewPusher, it.attrs), it.visibility), it,
        LAMBDA p, name :
            type_alias_rest(
                try_extend_from_slice(p, <<Kw("type"), Space, Ident(name, Some(it.id))>>),
                it.inner))

\* The tokens from the name of a constant or a static on, pp.rs:845-854 and
\* 867-876
named_value(r, it, name) ==
    try_extend_from_slice(
        call("with_type",
             try_extend_from_slice(r, <<Ident(name, Some(it.id)), Ponct(":"), Space>>),
             it.inner.type_),
        <<Space, Ponct("="), Space, Ident(it.inner.expr, None), Ponct(";")>>)

\* ItemEnum::Constant, pp.rs:837-856
from_item_Constant(it, idx) ==
    unwrap_name(
        try_extend_from_slice(
            with_visibility(with_attrs(NewPusher, it.attrs), it.visibility),
            <<Kw("const"), Space>>),
        it, LAMBDA p, name : named_value(p, it, name))

\* ItemEnum::Static, pp.rs:857-878
from_item_Static(it, idx) ==
    unwrap_name(
        try_extend_from_slice(
            with_visibility(with_attrs(NewPusher, it.attrs), it.visibility),
            <<Kw("static"), Space, Kw(IF it.inner.mutable THEN "mut" ELSE "const"), Space>>),
        it, LAMBDA p, name : named_value(p, it, name))

\* ItemEnum::Macro, pp.rs:880-893
from_item_Macro(it, idx) ==
    try_push(with_attrs(NewPusher, it.attrs), Ident(it.inner.body, None))

\* The match on proc_macro.kind, pp.rs:897-922
proc_macro_kind(r, kind, name) ==
    CASE kind = "Bang" ->
            try_extend_from_slice(r, <<name, Ponct("!"), Ponct("("), Ponct(")")>>)
      [] kind = "Attr" ->
            try_extend_from_slice(r, <<Ponct("#"), Ponct("["), name, Ponct("]")>>)
      [] kind = "Derive" ->
            try_extend_from_slice(r,
                <<Ponct("#"), Ponct("["), Ident("derive", None), Ponct("("), name,
                  Ponct(")"), Ponct("]")>>)

\* ItemEnum::ProcMacro, pp.rs:894-925
from_item_ProcMacro(it, idx) ==
    unwrap_name(NewPusher, it,
                LAMBDA p, name :
                    proc_macro_kind(p, it.inner.kind, Ident(name, Some(it.id))))

\* ItemEnum::Import, pp.rs:213-247.  import.source is its sequence of path
\* segments; rsplit_once("::") is Some((_, last segment)) when there are at
\* least two of them and None otherwise.
RECURSIVE JoinPath(_)
JoinPath(segs) ==
    IF Len(segs) = 1 THEN segs[1] ELSE segs[1] \o "::" \o JoinPath(Tail(segs))

last_name(source) ==
    IF Len(source) >= 2 THEN source[Len(source)] ELSE JoinPath(source)

from_item_Import(it, idx) ==
    try_push(
        extend_if(
            try_extend_from_slice(
                with_visibility(with_attrs(NewPusher, it.attrs), it.visibility),
                <<Kw("use"), Space, Ident(JoinPath(it.inner.source), it.inner.id)>>),
            last_name(it.inner.source) # it.inner.name,
            <<Space, Kw("as"), Space, Ident(it.inner.name, None)>>),
        Ponct(";"))

\* The arms left with an empty token list instead of the early return: the
\* fault the InvalidItem property detects
from_item_Module_empty(it, idx) == NewPusher

\* ItemEnum::Module and ItemEnum::ExternCrate, pp.rs:206-211:
\* return Err(FromItemErrorKind::InvalidItem)
from_item_Module(it, idx) == Err(NewPusher, InvalidItem)

\* Tokens::from_item, pp.rs:202-946: the pusher the match arm leaves
from_item_tokens(it, idx) ==
    CASE it.inner.i = "Module" -> from_item_Module(it, idx)
      [] it.inner.i = "ExternCrate" -> from_item_Module(it, idx)
      [] it.inner.i = "Import" -> from_item_Import(it, idx)
      [] it.inner.i = "Union" -> from_item_Union(it, idx)
      [] it.inner.i = "Struct" -> from_item_Struct(it, idx)
      [] it.inner.i = "StructField" -> with_struct_field(NewPusher, it, it.inner.type_)
      [] it.inner.i = "Enum" -> from_item_Enum(it, idx)
      [] it.inner.i = "Variant" -> with_enum_variant(NewPusher, idx, it, it.inner)
      [] it.inner.i = "Function" -> with_function(NewPusher, it, it.inner, FALSE)
      [] it.inner.i = "Trait" -> from_item_Trait(it, idx)
      [] it.inner.i = "TraitAlias" -> from_item_TraitAlias(it, idx)
      [] it.inner.i = "Impl" -> from_item_Impl(it, idx)
      [] it.inner.i = "TypeAlias" -> from_item_TypeAlias(it, idx)
      [] it.inner.i = "OpaqueTy" -> Panic(NewPusher, "not yet implemented: ItemEnum::OpaqueTy")
      [] it.inner.i = "Constant" -> from_item_Constant(it, idx)
      [] it.inner.i = "Static" -> from_item_Static(it, idx)
      [] it.inner.i = "ForeignType" ->
            Panic(NewPusher, "not yet implemented: ItemEnum::ForeignType")
      [] it.inner.i = "Macro" -> from_item_Macro(it, idx)
      [] it.inner.i = "ProcMacro" -> from_item_ProcMacro(it, idx)
      [] it.inner.i = "AssocConst" ->
            with_assoc_const(NewPusher, it, it.inner.type_, it.inner.default, TRUE)
      [] it.inner.i = "AssocType" ->
            with_assoc_type(NewPusher, it, it.inner.bounds, it.inner.default,
                            it.inner.generics, TRUE)
      [] it.inner.i = "Primitive" ->
            Panic(NewPusher, "not yet implemented: ItemEnum::Primitive")

\* What the caller of a pusher-filling function gets: Ok(Tokens(vec)), or the
\* error alone (the Vec is dropped), or the panic.
Returned(r) ==
    IF r.st = "Ok" THEN [st |-> "Ok", toks |-> r.toks, err |-> None]
    ELSE [st |-> r.st, toks |-> <<>>, err |-> r.err]

\* Tokens::from_item, pp.rs:202-946
from_item(it, idx) == Returned(from_item_tokens(it, idx))

\* Tokens::from_type, pp.rs:191-199
from_type(type_) == Returned(call("with_type", NewPusher, type_))

----------------------------------------------------------------------------
(* The crates the model lowers.  World is an index holding fields,         *)
(* variants, functions and associated items; the items handed to           *)
(* from_item are World's own items and parents built over its ids.         *)

MaxChildren == 2    \* longest child list (fields, variants, trait members)
MaxPreds == 2       \* most where-predicates on an item
MaxInputs == 3      \* most parameters of a function

Item(id, name, visibility, attrs, inner) ==
    [id |-> id, name |-> name, visibility |-> visibility, attrs |-> attrs, inner |-> inner]

TGeneric(name) == [t |-> "Generic", name |-> name]
TPrimitive(name) == [t |-> "Primitive", name |-> name]
PathOf(name, id) == [name |-> name, id |-> id, args |-> None]
TraitBound(name, id) ==
    [b |-> "TraitBound", trait_ |-> PathOf(name, id), generic_params |-> <<>>,
     modifier |-> "None"]
TypeParam(name, synthetic) ==
    [name |-> name,
     kind |-> [k |-> "Type", bounds |-> <<>>, default |-> None, synthetic |-> synthetic]]
LifetimeParam(name) == [name |-> name, kind |-> [k |-> "Lifetime", outlives |-> <<>>]]
BoundPredicate(type_, bounds, generic_params) ==
    [w |-> "BoundPredicate", type_ |-> type_, bounds |-> bounds,
     generic_params |-> generic_params]
LifetimePredicate(lifetime, outlives) ==
    [w |-> "LifetimePredicate", lifetime |-> lifetime, outlives |-> outlives]
Generics(params, where_predicates) ==
    [params |-> params, where_predicates |-> where_predicates]

CopyId == <<2, 10>>
RootId == <<0, 0>>

PredPool ==
    << BoundPredicate(TGeneric("T"), <<TraitBound("Copy", CopyId)>>, <<>>),
       LifetimePredicate("'a", <<"'b">>),
       BoundPredicate(TGeneric("U"), <<TraitBound("Copy", CopyId)>>, <<LifetimeParam("'c")>>),
       BoundPredicate(TGeneric("V"), <<TraitBound("Copy", CopyId)>>, <<>>) >>

GenericsChoices ==
    {Generics(ps, SubSeq(PredPool, 1, n)) :
        ps \in {<<>>, <<TypeParam("T", FALSE)>>}, n \in 0..MaxPreds}

NoGenerics == Generics(<<>>, <<>>)

Visibilities == {Public, Default, Crate, Restricted(RootId, "crate::a")}

FieldX == <<0, 1>>
FieldY == <<0, 2>>
FieldZ == <<0, 3>>
VarA == <<0, 4>>
VarB == <<0, 5>>
VarC == <<0, 6>>
VarE == <<0, 7>>
VarD == <<0, 8>>
FnA == <<0, 9>>
FnB == <<0, 10>>
ConstA == <<0, 11>>
TypeA == <<0, 12>>
Dangling == <<0, 99>>

StructField(type_) == [i |-> "StructField", type_ |-> type_]
Variant(kind, discriminant) ==
    [i |-> "Variant", kind |-> kind, discriminant |-> discriminant]
Function(header, generics, inputs, output, c_variadic, has_body) ==
    [i |-> "Function", header |-> header, generics |-> generics,
     decl |-> [inputs |-> inputs, output |-> output, c_variadic |-> c_variadic],
     has_body |-> has_body]
RustHeader == Header(FALSE, FALSE, FALSE, "Rust")

World ==
    (FieldX :> Item(FieldX, Some("x"), Default, <<>>, StructField(TGeneric("T"))))
 @@ (FieldY :> Item(FieldY, Some("y"), Default, <<>>, StructField(TGeneric("T"))))
 @@ (FieldZ :> Item(FieldZ, Some("z"), Public, <<>>, StructField(TPrimitive("u32"))))
 @@ (VarA :> Item(VarA, Some("A"), Default, <<>>, Variant([v |-> "Plain"], Some("1"))))
 @@ (VarB :> Item(VarB, Some("B"), Default, <<>>,
                  Variant([v |-> "Tuple", fields |-> <<Some(FieldZ), None>>], None)))
 @@ (VarC :> Item(VarC, Some("C"), Default, <<>>,
                  Variant([v |-> "Struct", fields |-> <<FieldX>>, fields_stripped |-> TRUE],
                          None)))
 @@ (VarE :> Item(VarE, Some("E"), Default, <<>>,
                  Variant([v |-> "Struct", fields |-> <<>>, fields_stripped |-> FALSE],
                          None)))
 @@ (VarD :> Item(VarD, Some("D"), Default, <<>>,
                  Variant([v |-> "Tuple", fields |-> <<Some(Dangling)>>], None)))
 @@ (FnA :> Item(FnA, Some("foo"), Default, <<>>,
                 Function(RustHeader, NoGenerics, <<>>, None, FALSE, FALSE)))
 @@ (FnB :> Item(FnB, Some("bar"), Default, <<>>,
                 Function(RustHeader, NoGenerics, <<<<"self", TGeneric("Self")>>>>,
                          Some(TPrimitive("u32")), FALSE, TRUE)))
 @@ (ConstA :> Item(ConstA, Some("N"), Default, <<>>,
                    [i |-> "AssocConst", type_ |-> TPrimitive("usize"), default |-> None]))
 @@ (TypeA :> Item(TypeA, Some("Out"), Default, <<>>,
                   [i |-> "AssocType", bounds |-> <<>>, default |-> None,
                    generics |-> NoGenerics]))

EmptyIndex == [id \in {} |-> id]
Indexes == {World, EmptyIndex}

\* All sequences over S of length at most n
SeqsUpTo(S, n) == UNION {[1..k -> S] : k \in 0..n}

FieldPool == {FieldX, FieldY, FnA, Dangling}
TupleFieldPool == {Some(FieldX), Some(FieldZ), Some(Dangling), None}
VariantPool == {VarA, VarB, VarC, VarE, VarD, FieldX, Dangling}
MemberPool == {FnA, FnB, ConstA, TypeA, FieldX, Dangling}

ParentId == <<0, 20>>

\* <<visibility, generics>> of the parents: every generics under pub, every
\* visibility without generics
Heads ==
    {h \in Visibilities \X GenericsChoices : h[1] = Public \/ h[2] = NoGenerics}
FewHeads ==
    {<<Public, NoGenerics>>, <<Crate, NoGenerics>>,
     <<Public, Generics(<<TypeParam("T", FALSE)>>, SubSeq(PredPool, 1, MaxPreds))>>}

Structs ==
    {Item(ParentId, Some("Point"), h[1], <<>>,
          [i |-> "Struct", generics |-> h[2],
           kind |-> [s |-> "Plain", fields |-> fs, fields_stripped |-> st]]) :
        h \in Heads, fs \in SeqsUpTo(FieldPool, MaxChildren), st \in BOOLEAN}
    \cup
    {Item(ParentId, Some("Pair"), h[1], <<>>,
          [i |-> "Struct", generics |-> h[2], kind |-> [s |-> "Tuple", fields |-> fs]]) :
        h \in Heads, fs \in SeqsUpTo(TupleFieldPool, MaxChildren)}
    \cup
    {Item(ParentId, Some("Unit"), h[1], <<>>,
          [i |-> "Struct", generics |-> h[2], kind |-> [s |-> "Unit"]]) :
        h \in Heads}

Unions ==
    {Item(ParentId, Some("Bits"), h[1], <<>>,
          [i |-> "Union", generics |-> h[2], fields |-> fs, fields_stripped |-> st]) :
        h \in FewHeads, fs \in SeqsUpTo(FieldPool, MaxChildren), st \in BOOLEAN}

Enums ==
    {Item(ParentId, Some("Shape"), h[1], <<>>,
          [i |-> "Enum", generics |-> h[2], variants |-> vs, variants_stripped |-> st]) :
        h \in FewHeads, vs \in SeqsUpTo(VariantPool, MaxChildren), st \in BOOLEAN}

Traits ==
    {Item(ParentId, Some("Draw"), h[1], <<>>,
          [i |-> "Trait", is_unsafe |-> FALSE, is_auto |-> FALSE, generics |-> h[2],
           bounds |-> <<>>, items |-> ms]) :
        h \in FewHeads, ms \in SeqsUpTo(MemberPool, MaxChildren)}

InputPool ==
    << <<"self", [t |-> "BorrowedRef", lifetime |-> None, mutable |-> FALSE,
                  type_ |-> TGeneric("Self")]>>,
       <<"a", TPrimitive("u32")>>,
       <<"b", [t |-> "Array", type_ |-> TPrimitive("u8"), len |-> "4"]>>,
       <<"c", TGeneric("T")>>,
       <<"d", TPrimitive("bool")>> >>

Functions ==
    {Item(ParentId, Some("run"), vis, <<>>,
          Function(hd, g, SubSeq(InputPool, 1, n), out, cv, hb)) :
        vis \in {Public, Default}, hd \in {RustHeader, Header(FALSE, TRUE, FALSE, "C")},
        g \in GenericsChoices, n \in 0..MaxInputs,
        out \in {None, Some(TPrimitive("u32"))}, cv \in BOOLEAN, hb \in BOOLEAN}

Others ==
    {Item(ParentId, Some("m"), Public, <<>>, [i |-> k]) :
        k \in {"Module", "ExternCrate", "OpaqueTy", "ForeignType", "Primitive"}}
    \cup
    {Item(ParentId, nm, Public, <<>>,
          [i |-> "TypeAlias", type_ |-> TPrimitive("u32"), generics |-> g]) :
        nm \in {None, Some("Alias")}, g \in GenericsChoices}

\* Functions with argument-position impl Trait: rustdoc lists one synthetic
\* type parameter per impl Trait after the parameters the source declares
ExplicitPrefixes ==
    {<<>>, <<TypeParam("T", FALSE)>>, <<LifetimeParam("'a"), TypeParam("T", FALSE)>>,
     <<TypeParam("implT", FALSE)>>, <<TypeParam("T", FALSE), TypeParam("implT", FALSE)>>}
SyntheticRuns ==
    {<<>>, <<TypeParam("impl Copy", TRUE)>>,
     <<TypeParam("impl Copy", TRUE), TypeParam("impl Into<T>", TRUE)>>}
ImplCopy == [t |-> "ImplTrait", bounds |-> <<TraitBound("Copy", CopyId)>>]
ImplInputs(explicit, synthetic) ==
    (IF explicit = <<>> THEN <<>>
     ELSE << <<"c", TGeneric(explicit[Len(explicit)].name)>> >>)
    \o [i \in 1..Len(synthetic) |-> <<"x", ImplCopy>>]

ImplFunctions ==
    {Item(ParentId, Some("run"), Public, <<>>,
          Function(RustHeader, Generics(explicit \o synthetic, <<>>),
                   ImplInputs(explicit, synthetic), None, FALSE, hb)) :
        explicit \in ExplicitPrefixes, synthetic \in SyntheticRuns, hb \in BOOLEAN}

\* Functions whose parameters, predicates and inputs come in either order,
\* and twice
OrderedFunctions ==
    {Item(ParentId, Some("run"), Public, <<>>,
          Function(RustHeader, Generics(ps, ws), ins, None, FALSE, FALSE)) :
        ps \in {<<TypeParam("T", FALSE), TypeParam("U", FALSE)>>,
                <<TypeParam("U", FALSE), TypeParam("T", FALSE)>>},
        ws \in {<<PredPool[1], PredPool[2]>>, <<PredPool[2], PredPool[1]>>,
                <<PredPool[1], PredPool[1]>>},
        ins \in {<<InputPool[2], InputPool[4]>>, <<InputPool[4], InputPool[2]>>,
                 <<InputPool[2], InputPool[2]>>}}

\* A trait alias, an impl and an associated type under every generics
WhereItems ==
    {Item(ParentId, Some("Shown"), Public, <<>>,
          [i |-> "TraitAlias", generics |-> g, params |-> <<TraitBound("Copy", CopyId)>>]) :
        g \in GenericsChoices}
    \cup
    {Item(ParentId, None, Default, <<>>,
          [i |-> "Impl", is_unsafe |-> FALSE, generics |-> g,
           trait_ |-> Some(PathOf("Copy", CopyId)), negative |-> FALSE,
           for_ |-> TGeneric("T"), blanket_impl |-> None]) :
        g \in GenericsChoices}
    \cup
    {Item(ParentId, Some("Out"), Default, <<>>,
          [i |-> "AssocType", bounds |-> <<>>, default |-> None, generics |-> g]) :
        g \in GenericsChoices}

\* `fn run<U>() where <predicate on U>;` with and without generic params
\* of the predicate's own, as in `for<'c> U: Copy`
HigherRankedFunctions ==
    {Item(ParentId, Some("run"), Public, <<>>,
          Function(RustHeader,
                   Generics(<<TypeParam("U", FALSE)>>, <<BoundPredicate(TGeneric("U"), bs, gp)>>),
                   <<>>, None, FALSE, FALSE)) :
        bs \in {<<TraitBound("Copy", CopyId)>>,
                <<TraitBound("Copy", CopyId), TraitBound("Draw", ParentId)>>},
        gp \in {<<>>, <<LifetimeParam("'c")>>, <<LifetimeParam("'c"), LifetimeParam("'d")>>}}

\* The types rustdoc gives the receivers `self`, `&self`, `&'a self`,
\* `&mut self` and `&'a mut self`
Receivers ==
    {TGeneric("Self")}
    \cup {[t |-> "BorrowedRef", lifetime |-> lifetime, mutable |-> mutable,
           type_ |-> TGeneric("Self")] :
             lifetime \in {None, Some("'a")}, mutable \in BOOLEAN}

\* `fn run(<receiver>);` and `fn run(<receiver>, n: u32);`
Methods ==
    {Item(ParentId, Some("run"), Default, <<>>,
          Function(RustHeader, NoGenerics, <<<<"self", receiver>>>> \o rest, None, FALSE,
                   FALSE)) :
        receiver \in Receivers, rest \in {<<>>, << <<"n", TPrimitive("u32")>> >>}}

Items == Structs \cup Unions \cup Enums \cup Traits \cup Functions \cup ImplFunctions
         \cup OrderedFunctions \cup WhereItems \cup HigherRankedFunctions \cup Methods
         \cup Others
         \cup {World[id] : id \in DOMAIN World}

----------------------------------------------------------------------------
(* Lowering one item: the caller picks an item and an index and calls      *)
(* Tokens::from_item once.                                                 *)

NotRun == [st |-> "NotRun", toks |-> <<>>, err |-> None]

InitPP ==
    /\ pc = "input"
    /\ item \in Items
    /\ index \in Indexes
    /\ index = EmptyIndex => item.visibility = Public /\ item.inner.i # "Function"
    /\ result = NotRun
    /\ type_in = None
    /\ tokens_in = None
    /\ link_in = None /\ link = NotRun
    /\ attrs_in = <<>>
    /\ html = <<>>
    /\ headings = None /\ events = <<>> /\ html_ids = <<>>
    /\ pushed = NotRun
    /\ stack = <<>> /\ fsops = <<>> /\ paths = <<>> /\ search = <<>> /\ run = NotRun

Lower ==
    /\ pc = "input"
    /\ result' = from_item(item, index)
    /\ pc' = "done"
    /\ UNCHANGED <<item, index, type_in, link_in, link, tokens_in, html, headings, events, html_ids, attrs_in, pushed>>
    /\ UNCHANGED htmlvars

NextPP == Lower

SpecPP == InitPP /\ [][NextPP]_vars

----------------------------------------------------------------------------
(* Lowering one type: the caller picks a type expression and calls         *)
(* Tokens::from_type once.  The type expressions are the trees of at most  *)
(* MaxTypeDepth constructors over the leaves.                              *)

MaxTypeDepth == 2

TraitId == <<2, 11>>
VecId == <<2, 12>>

AngleBracketed(args, bindings) ==
    [g |-> "AngleBracketed", args |-> args, bindings |-> bindings]
Parenthesized(inputs, output) ==
    [g |-> "Parenthesized", inputs |-> inputs, output |-> output]
ResolvedPath(name, id, args) ==
    [t |-> "ResolvedPath", path |-> [name |-> name, id |-> id, args |-> args]]
TypeArg(type_) == [a |-> "Type", type_ |-> type_]
Equality(name, term) == [name |-> name, binding |-> [b |-> "Equality", term |-> term]]
Constraint(name, bounds) ==
    [name |-> name, binding |-> [b |-> "Constraint", bounds |-> bounds]]
TermType(type_) == [tm |-> "Type", type_ |-> type_]
TermConstant(expr) == [tm |-> "Constant", expr |-> expr]
PolyTrait(name, id) == [trait_ |-> PathOf(name, id), generic_params |-> <<>>]

TypeLeaves ==
    {TGeneric("T"), TPrimitive("u32"), TPrimitive("never"), [t |-> "Infer"],
     [t |-> "Pat"], ImplCopy,
     [t |-> "DynTrait", traits |-> <<PolyTrait("Draw", TraitId)>>, lifetime |-> Some("'a")],
     ResolvedPath("Vec", VecId, None),
     ResolvedPath("Vec", VecId, Some(AngleBracketed(<<>>, <<>>))),
     ResolvedPath("Draw", TraitId,
                  Some(AngleBracketed(<<[a |-> "Lifetime", v |-> "'a"], [a |-> "Infer"],
                                        [a |-> "Const", expr |-> "N", value |-> Some("4")]>>,
                                      <<>>))),
     ResolvedPath("Draw", TraitId,
                  Some(AngleBracketed(<<>>, <<Equality("N", TermConstant("3"))>>))),
     ResolvedPath("Draw", TraitId,
                  Some(AngleBracketed(<<>>,
                                      <<Constraint("Out", <<TraitBound("Copy", CopyId)>>)>>)))}

\* The types with one constructor around s
Wrapped(s) ==
    {[t |-> "Slice", type_ |-> s],
     [t |-> "Array", type_ |-> s, len |-> "4"],
     [t |-> "RawPointer", mutable |-> TRUE, type_ |-> s],
     [t |-> "BorrowedRef", lifetime |-> Some("'a"), mutable |-> FALSE, type_ |-> s],
     [t |-> "Tuple", types |-> <<s, TPrimitive("u32")>>],
     ResolvedPath("Vec", VecId, Some(AngleBracketed(<<TypeArg(s)>>, <<>>))),
     ResolvedPath("Draw", TraitId,
                  Some(AngleBracketed(<<TypeArg(TGeneric("T"))>>,
                                      <<Equality("Out", TermType(s))>>))),
     ResolvedPath("Fn", TraitId, Some(Parenthesized(<<s>>, Some(s)))),
     [t |-> "QualifiedPath", name |-> "Out", args |-> AngleBracketed(<<>>, <<>>),
      self_type |-> s, trait_ |-> Some(PathOf("Draw", TraitId))],
     [t |-> "FunctionPointer", header |-> RustHeader, generic_params |-> <<>>,
      inputs |-> << <<"a", s>> >>, output |-> Some(s)]}

RECURSIVE TypesOfDepth(_)
TypesOfDepth(d) ==
    IF d = 0 THEN TypeLeaves
    ELSE TypeLeaves \cup UNION {Wrapped(s) : s \in TypesOfDepth(d - 1)}

\* Function pointers with and without `unsafe`, a foreign ABI, a generic
\* parameter, parameters and a return type, as in
\* `unsafe extern "C" fn<'a>(u32, T) -> u32`
FnPointers ==
    {[t |-> "FunctionPointer", header |-> header, generic_params |-> generic_params,
      inputs |-> inputs, output |-> output] :
        header \in {Header(FALSE, unsafe_, FALSE, abi) :
                        unsafe_ \in BOOLEAN, abi \in {"Rust", "C"}},
        generic_params \in {<<>>, <<LifetimeParam("'a")>>},
        inputs \in {<<>>, << <<"a", TPrimitive("u32")>> >>,
                    << <<"a", TPrimitive("u32")>>, <<"b", TGeneric("T")>> >>},
        output \in {None, Some(TPrimitive("u32"))}}

Types == TypesOfDepth(MaxTypeDepth) \cup FnPointers

InitType ==
    /\ pc = "input"
    /\ item = World[FieldX]
    /\ index = World
    /\ result = NotRun
    /\ type_in \in {Some(type_) : type_ \in Types}
    /\ tokens_in = None
    /\ link_in = None /\ link = NotRun
    /\ attrs_in = <<>>
    /\ html = <<>>
    /\ headings = None /\ events = <<>> /\ html_ids = <<>>
    /\ pushed = NotRun
    /\ stack = <<>> /\ fsops = <<>> /\ paths = <<>> /\ search = <<>> /\ run = NotRun

\* Tokens::from_type(&type_)
LowerType ==
    /\ pc = "input"
    /\ result' = from_type(Unwrap(type_in))
    /\ pc' = "done"
    /\ UNCHANGED <<item, index, type_in, link_in, link, tokens_in, html, headings, events, html_ids, attrs_in, pushed>>
    /\ UNCHANGED htmlvars

NextType == LowerType

SpecType == InitType /\ [][NextType]_vars

----------------------------------------------------------------------------
(* Raw attribute lists handed to with_attrs on an empty Vec.  The lists    *)
(* are the sequences of attributes rustdoc emits (and truncations of       *)
(* them), and the single-attribute lists over every short string of        *)
(* AttrChars.                                                              *)

MaxAttrs == 2      \* longest list of attributes rustdoc emits
MaxAttrLen == 3    \* longest string over AttrChars

AttrChars == {"#", "[", "]", "r", "E9"}

ReprC == <<"#", "[", "r", "e", "p", "r", "(", "C", ")", "]">>
MustUse == <<"#", "[", "m", "u", "s", "t", "_", "u", "s", "e", "]">>
NoMangle == <<"#", "[", "n", "o", "_", "m", "a", "n", "g", "l", "e", "]">>
InlineAttr == <<"#", "[", "i", "n", "l", "i", "n", "e", "]">>
DocHidden == <<"#", "[", "d", "o", "c", "(", "h", "i", "d", "d", "e", "n", ")", "]">>
ReprUnclosed == <<"#", "[", "r", "e", "p", "r">>
InnerAttr == <<"#", "!", "[", "r", "e", "p", "r", "]">>

RustdocAttrs == {ReprC, MustUse, NoMangle, InlineAttr, DocHidden, ReprUnclosed, InnerAttr}

AttrLists ==
    SeqsUpTo(RustdocAttrs, MaxAttrs)
    \cup {<<a>> : a \in SeqsUpTo(AttrChars, MaxAttrLen)}

InitAttrs ==
    /\ pc = "input"
    /\ item = World[FieldX]
    /\ index = World
    /\ result = NotRun
    /\ type_in = None
    /\ tokens_in = None
    /\ link_in = None /\ link = NotRun
    /\ attrs_in \in AttrLists
    /\ html = <<>>
    /\ headings = None /\ events = <<>> /\ html_ids = <<>>
    /\ pushed = NotRun
    /\ stack = <<>> /\ fsops = <<>> /\ paths = <<>> /\ search = <<>> /\ run = NotRun

\* with_attrs(&mut vec, &attrs) on an empty Vec
WithAttrs ==
    /\ pc = "input"
    /\ pushed' = with_attrs(NewPusher, attrs_in)
    /\ pc' = "done"
    /\ UNCHANGED <<item, index, result, type_in, link_in, link, tokens_in, html, headings, events, html_ids, attrs_in>>
    /\ UNCHANGED htmlvars

NextAttrs == WithAttrs

SpecAttrs == InitAttrs /\ [][NextAttrs]_vars

----------------------------------------------------------------------------
(* The HTML renderer, html/render.rs.  A path is the sequence of its       *)
(* components, relative to the output directory (which exists).  fsops     *)
(* records <<"mkdir", path>>, <<"create", path>> (File::create: the file   *)
(* exists and is empty), <<"write", path>> (the page is written to it)     *)
(* and <<"dump", path>> (dump_to: created and written at once).  The items *)
(* rendered carry no attributes, documentation, deprecation or impls.      *)

Failure(msg) == <<"anyhow", msg>>
FromPP(e) == <<"pp", e>>

SEARCH_INDEX_JS == "search-index.js"

\* The elements of a sequence.
Range(s) == {s[i] : i \in 1..Len(s)}

\* utils.rs:70-95
prefix_item(it) ==
    LET k == it.inner.i
    IN  IF k \in {"ExternCrate", "OpaqueTy", "Primitive"} THEN [st |-> "Panic", kind |-> ""]
        ELSE IF k = "ForeignType" THEN [st |-> "None", kind |-> ""]
        ELSE [st |-> "Some",
              kind |-> CASE k = "Module" -> "mod"
                         [] k = "Import" -> "import"
                         [] k = "Union" -> "union"
                         [] k = "Struct" -> "struct"
                         [] k = "StructField" -> "structfield"
                         [] k = "Enum" -> "enum"
                         [] k = "Variant" -> "variant"
                         [] k = "Function" -> "fn"
                         [] k = "Trait" -> "trait"
                         [] k = "TraitAlias" -> "trait.alias"
                         [] k = "Impl" -> "impl"
                         [] k = "TypeAlias" -> "type"
                         [] k = "Constant" -> "constant"
                         [] k = "Static" -> "static"
                         [] k = "Macro" -> "macro"
                         [] k = "ProcMacro" -> "proc.macro"
                         [] k = "AssocConst" -> "associatedconst"
                         [] k = "AssocType" -> "associatedtype"]

Dirs(ops) == {ops[i][2] : i \in {j \in 1..Len(ops) : ops[j][1] = "mkdir"}}
Parent(path) == SubSeq(path, 1, Len(path) - 1)

\* The state a page function works on: the outcome so far and the
\* global_context fields it allocates into.
Gc(ops, ps) == [st |-> "Ok", err |-> None, fsops |-> ops, paths |-> ps, page |-> None]
Fail(gc, e) == [gc EXCEPT !.st = "Err", !.err = e]
Unwind(gc, msg) == [gc EXCEPT !.st = "Panic", !.err = <<msg>>]

\* fn base_page, render.rs:224-299.  krate_paths is global_context.krate.paths.
base_page(gc, krate_paths, parent_item_path, it) ==
    IF ~IsSome(it.name) THEN Fail(gc, Failure("unable to get the name of an item"))
    ELSE IF it.id \notin DOMAIN krate_paths
    THEN Fail(gc, Failure("unable to find the path of for the item"))
    ELSE IF krate_paths[it.id].path = <<>>
    THEN Unwind(gc, "attempt to subtract with overflow")
    ELSE IF prefix_item(it).st = "Panic"
    THEN Unwind(gc, "internal error: entered unreachable code")
    ELSE IF prefix_item(it).st = "None" THEN Fail(gc, Failure("unable to get of this item"))
    ELSE
    LET name == Unwrap(it.name)
        krate_path == krate_paths[it.id]
        parts == Parent(krate_path.path)
        item_kind_name == prefix_item(it).kind
        filename == IF krate_path.kind = "Module" THEN <<name, "index.html">>
                    ELSE <<item_kind_name \o "." \o name \o ".html">>
        dir == parts \o <<name>>
        mkdir_fails == it.inner.i = "Module"
                       /\ (dir \in Dirs(gc.fsops)
                           \/ (parts # <<>> /\ parts \notin Dirs(gc.fsops)))
        ops1 == IF it.inner.i = "Module" THEN Append(gc.fsops, <<"mkdir", dir>>)
                ELSE gc.fsops
        filepath == parts \o filename
        create_fails == Parent(filepath) # <<>> /\ Parent(filepath) \notin Dirs(ops1)
        item_path == (IF IsSome(parent_item_path) THEN Unwrap(parent_item_path) ELSE <<>>)
                     \o <<[name |-> name, kind |-> item_kind_name, filepath |-> filepath]>>
    IN  IF mkdir_fails THEN Fail(gc, Failure("unable to create the module dir"))
        ELSE IF create_fails
        THEN Fail([gc EXCEPT !.fsops = ops1], Failure("unable to create the file"))
        ELSE [gc EXCEPT !.fsops = Append(ops1, <<"create", filepath>>),
                        !.paths = Append(gc.paths, item_path),
                        !.page = Some([item |-> it.id, filepath |-> filepath,
                                       filename |-> filename, item_path |-> item_path])]

\* tokens?: an Err(e) of pp returns Err(e.into()), a panic unwinds
try_tokens(gc, tokens) ==
    IF tokens.st = "Err" THEN Fail(gc, FromPP(tokens.err))
    ELSE IF tokens.st = "Panic" THEN Unwind(gc, tokens.err[1])
    ELSE gc

\* fn item_definition, render.rs:302-309: the page state after the call
item_definition(gc, it, idx) ==
    IF gc.st # "Ok" THEN gc ELSE try_tokens(gc, from_item(it, idx))

\* The ids a page's content looks up in the index: `&inner.$fields` of
\* render.rs:1221-1227 and trait_.items of render.rs:878-893
content_ids(it) ==
    CASE it.inner.i = "Struct" ->
             IF it.inner.kind.s = "Plain" THEN it.inner.kind.fields
             ELSE IF it.inner.kind.s = "Tuple"
             THEN LET some == [i \in 1..Len(it.inner.kind.fields) |->
                                  it.inner.kind.fields[i]]
                      F[i \in 0..Len(some)] ==
                          IF i = 0 THEN <<>>
                          ELSE IF IsSome(some[i]) THEN Append(F[i - 1], Unwrap(some[i]))
                          ELSE F[i - 1]
                  IN  F[Len(some)]
             ELSE <<>>
      [] it.inner.i = "Union" -> it.inner.fields
      [] it.inner.i = "Enum" -> it.inner.variants
      [] it.inner.i = "Trait" -> it.inner.items
      [] OTHER -> <<>>

\* The lookups of struct_union_enum_content, render.rs:1028-1206 (variants at
\* 1096-1112), and of trait_page, render.rs:878-893: each id is fetched with
\* index.get(id).with_context(..)?
page_content(gc, it, idx) ==
    IF gc.st # "Ok" THEN gc
    ELSE IF \E i \in 1..Len(content_ids(it)) : content_ids(it)[i] \notin DOMAIN idx
    THEN Fail(gc, Failure("Unable to find the item"))
    ELSE gc

\* writeln!(file, "{}", page) on the file base_page created
write_page(gc) ==
    IF gc.st # "Ok" THEN gc
    ELSE [gc EXCEPT !.fsops = Append(@, <<"write", Unwrap(gc.page).filepath>>)]

\* The same with the ItemPath of the page left out of global_context.paths.
item_page_unlisted(gc, krate_paths, parent_item_path, it, idx) ==
    [write_page(
         page_content(
             item_definition(base_page(gc, krate_paths, parent_item_path, it), it, idx),
             it, idx)) EXCEPT !.paths = gc.paths]

\* struct_page, union_page, enum_page (render.rs:1208-1255), trait_page
\* (render.rs:828-1025) and the pages of render.rs:1257-1294
item_page(gc, krate_paths, parent_item_path, it, idx) ==
    write_page(
        page_content(
            item_definition(base_page(gc, krate_paths, parent_item_path, it), it, idx),
            it, idx))

\* str::cmp over the names of the rendered crate: their rank in byte order
StrRank ==
    ("Broken" :> 1) @@ ("Cell" :> 2) @@ ("Ext" :> 3) @@ ("Foreign" :> 4) @@ ("Inner" :> 5)
    @@ ("Odd" :> 6) @@ ("Opaque" :> 7) @@ ("Point" :> 8) @@ ("Shape" :> 9) @@ ("a" :> 10)
    @@ ("eq" :> 11) @@ ("k" :> 12) @@ ("run" :> 13)

\* Option<String>::cmp(x, y) is not Greater
name_le(x, y) ==
    IF ~IsSome(x) THEN TRUE
    ELSE IF ~IsSome(y) THEN FALSE
    ELSE StrRank[Unwrap(x)] <= StrRank[Unwrap(y)]

\* The comparator of items.sort_by, render.rs:408-413, is not Greater
sort_le(x_item, y_item) ==
    IF x_item.inner.i = "Module" /\ y_item.inner.i = "Module"
    THEN name_le(x_item.name, y_item.name)
    ELSE IF x_item.inner.i = "Module" THEN TRUE
    ELSE IF y_item.inner.i = "Module" THEN FALSE
    ELSE name_le(x_item.name, y_item.name)

\* slice::sort_by is stable: each element goes after the ones not greater
sort_by(items) ==
    LET F[i \in 0..Len(items)] ==
            IF i = 0 THEN <<>>
            ELSE LET sorted == F[i - 1]
                     k == Cardinality({j \in 1..Len(sorted) : sort_le(sorted[j], items[i])})
                 IN  SubSeq(sorted, 1, k) \o <<items[i]>> \o SubSeq(sorted, k + 1, Len(sorted))
    IN  F[Len(items)]

\* The filter_map of render.rs:389-407: ids missing from the index and ids of
\* other crates (not "0:..") are left out.
module_items(module, idx) ==
    LET ids == module.items
        F[i \in 0..Len(ids)] ==
            IF i = 0 THEN <<>>
            ELSE IF ids[i] \in DOMAIN idx /\ ids[i][1] = 0 THEN Append(F[i - 1], idx[ids[i]])
            ELSE F[i - 1]
    IN  sort_by(F[Len(ids)])

\* The start of module_page, render.rs:312-413: the page is created and the
\* child items are collected and sorted.  frame is the activation.
activation(bp, it, idx) ==
    IF bp.st # "Ok" THEN bp
    ELSE [bp EXCEPT !.page = Some([page_context |-> Unwrap(bp.page),
                                   items |-> module_items(it.inner, idx),
                                   pos |-> 1])]

\* The same with the page written as soon as it is created.
module_page_enter_written(gc, krate_paths, parent_item_path, it, idx) ==
    activation(write_page(base_page(gc, krate_paths, parent_item_path, it)), it, idx)

module_page_enter(gc, krate_paths, parent_item_path, it, idx) ==
    activation(base_page(gc, krate_paths, parent_item_path, it), it, idx)

\* The summary line of a type definition, render.rs:636-646:
\* pp::Tokens::from_type(&typedef_.type_)?
typedef_summary(gc, it) ==
    IF it.inner.i = "TypeAlias" /\ gc.st = "Ok"
    THEN try_tokens(gc, from_type(it.inner.type_))
    ELSE gc

\* One iteration of the item loop of module_page, render.rs:415-788, for an
\* item that is not a module.
module_page_item(gc, krate_paths, page_context, it, idx) ==
    IF it.inner.i \in {"Import", "TraitAlias"}
    THEN item_definition(gc, it, idx)
    ELSE IF it.inner.i \in {"Union", "Struct", "Enum", "Function", "Trait", "TypeAlias",
                            "Constant", "Static", "Macro", "ProcMacro"}
    THEN IF ~IsSome(it.name) THEN Fail(gc, Failure("unable to get the name"))
         ELSE typedef_summary(
                  item_page(gc, krate_paths, Some(page_context.item_path), it, idx), it)
    ELSE Unwind(gc, "module item shouldn't have a this type of item")

----------------------------------------------------------------------------
(* The crate the renderer is run on: World's items plus a root module `k`, *)
(* whose item list is the input, with structs, an enum, a function, a      *)
(* child module and an item re-exported from another crate.                *)

MaxItems == 3       \* longest item list of the root module

PointId == <<0, 30>>
BrokenId == <<0, 31>>
ModAId == <<0, 32>>
InnerId == <<0, 33>>
OddId == <<0, 34>>
RunId == <<0, 35>>
ExtId == <<1, 5>>
OpaqueId == <<0, 40>>
ForeignId == <<0, 41>>
CellId == <<0, 42>>
ShapeId == <<0, 43>>
EqId == <<0, 44>>

PlainStruct(id, name, fields) ==
    Item(id, Some(name), Public, <<>>,
         [i |-> "Struct", generics |-> NoGenerics,
          kind |-> [s |-> "Plain", fields |-> fields, fields_stripped |-> FALSE]])

Krate ==
    World
 @@ (PointId :> PlainStruct(PointId, "Point", <<FieldX, FieldY>>))
 @@ (BrokenId :> PlainStruct(BrokenId, "Broken", <<Dangling>>))
 @@ (ModAId :> Item(ModAId, Some("a"), Public, <<>>,
                    [i |-> "Module", items |-> <<InnerId, Dangling>>]))
 @@ (InnerId :> PlainStruct(InnerId, "Inner", <<FieldX>>))
 @@ (OddId :> Item(OddId, Some("Odd"), Public, <<>>,
                   [i |-> "Enum", generics |-> NoGenerics, variants |-> <<VarA, VarE>>,
                    variants_stripped |-> FALSE]))
 @@ (RunId :> Item(RunId, Some("run"), Public, <<>>,
                   Function(RustHeader, NoGenerics, <<>>, None, FALSE, TRUE)))
 @@ (ExtId :> PlainStruct(ExtId, "Ext", <<>>))

KratePath(kind, path) == [kind |-> kind, path |-> path]

\* krate.paths
KratePaths ==
    (RootId :> KratePath("Module", <<"k">>))
 @@ (PointId :> KratePath("Struct", <<"k", "Point">>))
 @@ (BrokenId :> KratePath("Struct", <<"k", "Broken">>))
 @@ (ModAId :> KratePath("Module", <<"k", "a">>))
 @@ (InnerId :> KratePath("Struct", <<"k", "a", "Inner">>))
 @@ (OddId :> KratePath("Enum", <<"k", "Odd">>))
 @@ (RunId :> KratePath("Function", <<"k", "run">>))
 @@ (ExtId :> KratePath("Struct", <<"ext", "Ext">>))
 @@ (CellId :> KratePath("TypeAlias", <<"k", "Cell">>))
 @@ (ShapeId :> KratePath("TypeAlias", <<"k", "Shape">>))
 @@ (EqId :> KratePath("Function", <<"k", "eq">>))

RootPool == {PointId, BrokenId, ModAId, OddId, RunId, ExtId, Dangling}

Roots ==
    {Item(RootId, Some("k"), Public, <<>>, [i |-> "Module", items |-> ids]) :
        ids \in SeqsUpTo(RootPool, MaxItems)}
    \cup {World[FnA]}

\* The same crate with items of the shapes pp and the renderer leave out:
\* an opaque type, a foreign type, `type Cell = <pattern type>`,
\* `type Shape = Draw<N = 3>` and `fn eq() where T: 3`.
ShapeKrate ==
    Krate
 @@ (OpaqueId :> Item(OpaqueId, Some("Opaque"), Public, <<>>, [i |-> "OpaqueTy"]))
 @@ (ForeignId :> Item(ForeignId, Some("Foreign"), Public, <<>>, [i |-> "ForeignType"]))
 @@ (CellId :> Item(CellId, Some("Cell"), Public, <<>>,
                    [i |-> "TypeAlias", type_ |-> [t |-> "Pat"], generics |-> NoGenerics]))
 @@ (ShapeId :> Item(ShapeId, Some("Shape"), Public, <<>>,
                     [i |-> "TypeAlias",
                      type_ |-> ResolvedPath("Draw", TraitId,
                                    Some(AngleBracketed(<<>>,
                                             <<Equality("N", TermConstant("3"))>>))),
                      generics |-> NoGenerics]))
 @@ (EqId :> Item(EqId, Some("eq"), Public, <<>>,
                  Function(RustHeader,
                           Generics(<<>>, <<[w |-> "EqPredicate", lhs |-> TGeneric("T"),
                                             rhs |-> TermConstant("3")]>>),
                           <<>>, None, FALSE, TRUE)))

Unmodelled == {OpaqueId, ForeignId, CellId, ShapeId, EqId}

ShapePool == {PointId, ModAId} \cup Unmodelled

ShapeRoots ==
    {Item(RootId, Some("k"), Public, <<>>, [i |-> "Module", items |-> ids]) :
        ids \in SeqsUpTo(ShapePool, MaxItems)}

----------------------------------------------------------------------------
(* html::render, render.rs:163-221, run step by step: RenderStart enters   *)
(* module_page for the crate item, ModuleItem runs one iteration of the    *)
(* innermost module's item loop (entering the child's module_page when the *)
(* item is a module), ModuleWrite writes the innermost module's page and   *)
(* returns to its caller, DumpSearch writes the search index.  An error    *)
(* or a panic propagates to the caller of render at once.                  *)

Top == stack[Len(stack)]

\* render returns what gc holds
Returns(gc) ==
    /\ run' = [st |-> gc.st, toks |-> <<>>, err |-> gc.err]
    /\ fsops' = gc.fsops
    /\ paths' = gc.paths
    /\ stack' = <<>>
    /\ pc' = "done"
    /\ UNCHANGED search

\* module_page(..)? on a module: its activation goes on top of callers, or
\* the failure propagates
Enters(entered, callers) ==
    IF entered.st # "Ok" THEN Returns(entered)
    ELSE /\ stack' = Append(callers, Unwrap(entered.page))
         /\ fsops' = entered.fsops
         /\ paths' = entered.paths
         /\ pc' = "module_page"
         /\ UNCHANGED <<search, run>>

\* The end of one iteration on an item that is not a module
Continues(done, callers) ==
    IF done.st # "Ok" THEN Returns(done)
    ELSE /\ stack' = callers
         /\ fsops' = done.fsops
         /\ paths' = done.paths
         /\ UNCHANGED <<pc, search, run>>

InitRender ==
    /\ pc = "render"
    /\ item \in Roots
    /\ index = Krate
    /\ result = NotRun
    /\ type_in = None
    /\ tokens_in = None
    /\ link_in = None /\ link = NotRun
    /\ attrs_in = <<>>
    /\ html = <<>>
    /\ headings = None /\ events = <<>> /\ html_ids = <<>>
    /\ pushed = NotRun
    /\ stack = <<>> /\ fsops = <<>> /\ paths = <<>> /\ search = <<>> /\ run = NotRun

\* render.rs:163-178
RenderStart ==
    /\ pc = "render"
    /\ IF item.inner.i # "Module"
       THEN Returns(Fail(Gc(fsops, paths), Failure("main item is not a Module")))
       ELSE IF ~IsSome(item.name)
       THEN Returns(Fail(Gc(fsops, paths), Failure("expect a crate name")))
       ELSE Enters(module_page_enter(Gc(fsops, paths), KratePaths, None, item, index),
                   <<>>)
    /\ UNCHANGED <<item, index, result, type_in, link_in, link, tokens_in, html, headings, events, html_ids, attrs_in, pushed>>

\* The caller's activation once the current item is dealt with
Advanced == [stack EXCEPT ![Len(stack)].pos = @ + 1]

\* render.rs:415-788
ModuleItem ==
    /\ pc = "module_page"
    /\ Top.pos <= Len(Top.items)
    /\ IF Top.items[Top.pos].inner.i = "Module"
       THEN IF ~IsSome(Top.items[Top.pos].name)
            THEN Returns(Fail(Gc(fsops, paths),
                              Failure("unable to get the name of module")))
            ELSE Enters(module_page_enter(Gc(fsops, paths), KratePaths,
                                          Some(Top.page_context.item_path),
                                          Top.items[Top.pos], index),
                        Advanced)
       ELSE Continues(module_page_item(Gc(fsops, paths), KratePaths, Top.page_context,
                                       Top.items[Top.pos], index),
                      Advanced)
    /\ UNCHANGED <<item, index, result, type_in, link_in, link, tokens_in, html, headings, events, html_ids, attrs_in, pushed>>

\* render.rs:790-824
ModuleWrite ==
    /\ pc = "module_page"
    /\ Top.pos > Len(Top.items)
    /\ fsops' = Append(fsops, <<"write", Top.page_context.filepath>>)
    /\ stack' = SubSeq(stack, 1, Len(stack) - 1)
    /\ pc' = IF Len(stack) = 1 THEN "search" ELSE "module_page"
    /\ UNCHANGED <<paths, search, run>>
    /\ UNCHANGED <<item, index, result, type_in, link_in, link, tokens_in, html, headings, events, html_ids, attrs_in, pushed>>

\* render.rs:179-218: one entry per ItemPath, then dump_to
DumpSearch ==
    /\ pc = "search"
    /\ LET krate_name == Unwrap(item.name)
           target == <<krate_name, SEARCH_INDEX_JS>>
           entries == [i \in 1..Len(paths) |->
                          [components |-> [j \in 1..Len(paths[i]) |->
                                              [name |-> paths[i][j].name,
                                               kind |-> paths[i][j].kind]],
                           filepath |-> paths[i][Len(paths[i])].filepath]]
       IN  IF <<krate_name>> \notin Dirs(fsops)
           THEN Returns(Fail(Gc(fsops, paths), <<"io", "No such file or directory">>))
           ELSE /\ search' = entries
                /\ fsops' = Append(fsops, <<"dump", target>>)
                /\ run' = [st |-> "Ok", toks |-> <<>>, err |-> None]
                /\ pc' = "done"
                /\ UNCHANGED <<stack, paths>>
    /\ UNCHANGED <<item, index, result, type_in, link_in, link, tokens_in, html, headings, events, html_ids, attrs_in, pushed>>

NextRender == RenderStart \/ ModuleItem \/ ModuleWrite \/ DumpSearch

SpecRender == InitRender /\ [][NextRender]_vars

\* html::render on the crate with the shapes that are left out
InitShapes ==
    /\ pc = "render"
    /\ item \in ShapeRoots
    /\ index = ShapeKrate
    /\ result = NotRun
    /\ type_in = None
    /\ tokens_in = None
    /\ link_in = None /\ link = NotRun
    /\ attrs_in = <<>>
    /\ html = <<>>
    /\ headings = None /\ events = <<>> /\ html_ids = <<>>
    /\ pushed = NotRun
    /\ stack = <<>> /\ fsops = <<>> /\ paths = <<>> /\ search = <<>> /\ run = NotRun

SpecShapes == InitShapes /\ [][NextRender]_vars

----------------------------------------------------------------------------
(* NewLineTabulationPusher on its own: a token sequence is pushed through  *)
(* a wrapper created by tabulation around a Vec that holds inner already.  *)

MaxPush == 3

PushPool == {NewLine, Space, Ident("x", None), Ponct(",")}

InitPusher ==
    /\ pc = "input"
    /\ item = World[FieldX]
    /\ index = World
    /\ result = NotRun
    /\ type_in = None
    /\ tokens_in \in {Some([inner |-> inner, pushed |-> ts]) :
                         inner \in {<<>>, <<Ponct("{")>>},
                         ts \in SeqsUpTo(PushPool, MaxPush)}
    /\ link_in = None /\ link = NotRun
    /\ attrs_in = <<>>
    /\ html = <<>>
    /\ headings = None /\ events = <<>> /\ html_ids = <<>>
    /\ pushed = NotRun
    /\ stack = <<>> /\ fsops = <<>> /\ paths = <<>> /\ search = <<>> /\ run = NotRun

\* NewLineTabulationPusher::tabulation(&mut inner, |pusher| pusher.try_extend_from_slice(&ts))
through_tabulation(inner, ts) ==
    unwrapped(try_extend_from_slice([NewPusher EXCEPT !.toks = inner, !.tab = TRUE,
                                                      !.nl = TRUE], ts),
              NewPusher)

PushThrough ==
    /\ pc = "input"
    /\ result' = Returned(through_tabulation(Unwrap(tokens_in).inner,
                                             Unwrap(tokens_in).pushed))
    /\ pc' = "done"
    /\ UNCHANGED <<item, index, type_in, link_in, link, tokens_in, html, headings, events, html_ids, attrs_in, pushed>>
    /\ UNCHANGED htmlvars

NextPusher == PushThrough

SpecPusher == InitPusher /\ [][NextPusher]_vars

----------------------------------------------------------------------------
(* Links, html/utils.rs.  A path is the sequence of the components that    *)
(* Path::components yields for it: directory names, a page file name, "..".*)

MaxDirs == 2

DirNames == {"k", "a", "ext"}

PageKinds ==
    {"mod", "import", "union", "struct", "enum", "fn", "trait", "trait.alias", "type",
     "constant", "static", "macro", "primitive"}

PageNames ==
    {"Point", "Broken", "Inner", "Odd", "run", "Ext", "Draw", "Cell", "Shape", "eq", "a", "m"}

\* The file names of pages, as base_page (render.rs:250-254) and href
\* (utils.rs:356-360) build them.
PageFileNames ==
    {"index.html"} \cup {kind \o "." \o name \o ".html" : kind \in PageKinds, name \in PageNames}

\* s.ends_with(".html"), utils.rs:217-224.  A directory of the output tree is
\* named after a crate or a module, an identifier, so the components that
\* end in ".html" are the page file names.
ends_with_html(c) == c \in PageFileNames

\* components().take_while(|c| !ends_with_html(c)), utils.rs:226-233
RECURSIVE take_while_not_html(_)
take_while_not_html(path) ==
    IF path = <<>> THEN <<>>
    ELSE IF ends_with_html(Head(path)) THEN <<>>
    ELSE <<Head(path)>> \o take_while_not_html(Tail(path))

\* "Skip over the common prefix", utils.rs:235-239: what is left of both
RECURSIVE skip_common_prefix(_, _)
skip_common_prefix(base_components, url_components) ==
    IF base_components # <<>> /\ url_components # <<>>
       /\ Head(base_components) = Head(url_components)
    THEN skip_common_prefix(Tail(base_components), Tail(url_components))
    ELSE <<base_components, url_components>>

\* relative.push("..") for each remaining base component, utils.rs:241-251
RECURSIVE push_parents(_)
push_parents(base_components) ==
    IF base_components = <<>> THEN <<>>
    ELSE <<"..">> \o push_parents(Tail(base_components))

\* Path::file_name: the last component unless it is ".."
file_name(path) ==
    IF path = <<>> THEN None
    ELSE IF path[Len(path)] = ".." THEN None
    ELSE Some(path[Len(path)])

\* utils.rs:241-262, on the components the common prefix left
relative_rest(rest, url) ==
    push_parents(rest[1]) \o rest[2] \o file_name(url)

\* The same without the elision of the common prefix.
relative_unelided(base, url) ==
    relative_rest(<<take_while_not_html(base), take_while_not_html(url)>>, url)

\* fn relative, utils.rs:211-263
relative(base, url) ==
    relative_rest(skip_common_prefix(take_while_not_html(base), take_while_not_html(url)),
                  url)

RECURSIVE DirsUpTo(_)
DirsUpTo(n) ==
    IF n = 0 THEN {<<>>}
    ELSE DirsUpTo(n - 1)
         \cup {Append(d, c) : d \in {e \in DirsUpTo(n - 1) : Len(e) = n - 1}, c \in DirNames}

\* The paths of pages: directories, then the file of the page.
PagePaths ==
    {Append(d, f) : d \in DirsUpTo(MaxDirs), f \in {"index.html", "struct.Point.html"}}

InitRelative ==
    /\ pc = "input"
    /\ item = World[FieldX]
    /\ index = World
    /\ result = NotRun
    /\ type_in = None
    /\ tokens_in = None
    /\ link_in \in {Some([base |-> base, url |-> url]) : base \in PagePaths, url \in PagePaths}
    /\ link = NotRun
    /\ attrs_in = <<>>
    /\ html = <<>>
    /\ headings = None /\ events = <<>> /\ html_ids = <<>>
    /\ pushed = NotRun
    /\ stack = <<>> /\ fsops = <<>> /\ paths = <<>> /\ search = <<>> /\ run = NotRun

\* relative(&base, &url)
Relative ==
    /\ pc = "input"
    /\ link' = relative(Unwrap(link_in).base, Unwrap(link_in).url)
    /\ pc' = "done"
    /\ UNCHANGED <<item, index, result, type_in, link_in, tokens_in, html, headings, events, html_ids, attrs_in, pushed>>
    /\ UNCHANGED htmlvars

NextRelative == Relative

SpecRelative == InitRelative /\ [][NextRelative]_vars

\* fn prefix_item_kind, utils.rs:41-68: the kind prefix and whether items of
\* the kind always have a page (a file) of their own
prefix_item_kind(kind) ==
    IF kind \in {"ExternCrate", "OpaqueTy", "ProcAttribute", "ProcDerive", "Keyword"}
    THEN [st |-> "Panic", kind |-> "", file |-> FALSE]
    ELSE IF kind = "ForeignType" THEN [st |-> "None", kind |-> "", file |-> FALSE]
    ELSE [st |-> "Some",
          kind |-> CASE kind = "Module" -> "mod"
                     [] kind = "Import" -> "import"
                     [] kind = "Union" -> "union"
                     [] kind = "Struct" -> "struct"
                     [] kind = "StructField" -> "structfield"
                     [] kind = "Enum" -> "enum"
                     [] kind = "Variant" -> "variant"
                     [] kind = "Function" -> "fn"
                     [] kind = "Trait" -> "trait"
                     [] kind = "TraitAlias" -> "trait.alias"
                     [] kind = "Impl" -> "impl"
                     [] kind = "TypeAlias" -> "type"
                     [] kind = "Constant" -> "constant"
                     [] kind = "Static" -> "static"
                     [] kind = "Macro" -> "macro"
                     [] kind = "AssocConst" -> "associatedconst"
                     [] kind = "AssocType" -> "associatedtype"
                     [] kind = "Primitive" -> "primitive",
          file |-> kind \notin {"StructField", "Variant", "Impl", "AssocConst", "AssocType"}]

\* What href returns: None, or Some((external_crate_url, path, fragment,
\* type_of)); a panic unwinds.
NoLink == [st |-> "None", external_crate_url |-> None, path |-> <<>>, fragment |-> None,
           type_of |-> ""]
Link(external_crate_url, path, fragment, type_of) ==
    [st |-> "Some", external_crate_url |-> external_crate_url, path |-> path,
     fragment |-> fragment, type_of |-> type_of]
LinkPanic == [NoLink EXCEPT !.st = "Panic"]

\* utils.rs:297-343: the id is not in krate.paths; an item of the index of
\* one of four kinds is taken to be on the current page
href_same_page(idx, id) ==
    IF id \notin DOMAIN idx THEN NoLink
    ELSE IF idx[id].inner.i \notin {"Function", "AssocType", "AssocConst", "TypeAlias"}
    THEN NoLink
    ELSE IF ~IsSome(idx[id].name) THEN LinkPanic
    ELSE CASE idx[id].inner.i = "Function" ->
                  Link(None, <<>>, Some("method." \o Unwrap(idx[id].name)), "method")
           [] idx[id].inner.i = "AssocType" ->
                  Link(None, <<>>, Some("associatedtype." \o Unwrap(idx[id].name)),
                       "associatedtype")
           [] idx[id].inner.i = "AssocConst" ->
                  Link(None, <<>>, Some("associatedconst." \o Unwrap(idx[id].name)),
                       "associatedconst")
           [] idx[id].inner.i = "TypeAlias" ->
                  Link(None, <<>>, Some("type." \o Unwrap(idx[id].name)), "type")

\* utils.rs:351-366: dest, the page of an item that has a file of its own
href_dest(to, to_kind) ==
    IF to.kind = "Module" THEN Append(to.path, "index.html")
    ELSE Append(Parent(to.path), to_kind \o "." \o to.path[Len(to.path)] \o ".html")

\* fn href, utils.rs:284-385.  external_crates maps a crate_id to its
\* ExternalCrate; the crate_id of an ItemSummary is the crate of its Id.
href(krate_paths, idx, external_crates, filepath, id) ==
    IF id \notin DOMAIN krate_paths THEN href_same_page(idx, id)
    ELSE IF prefix_item_kind(krate_paths[id].kind).st = "Panic" THEN LinkPanic
    ELSE IF prefix_item_kind(krate_paths[id].kind).st = "None" THEN NoLink
    ELSE IF ~prefix_item_kind(krate_paths[id].kind).file THEN NoLink
    ELSE IF krate_paths[id].path = <<>> THEN LinkPanic
    ELSE IF id[1] \in DOMAIN external_crates
    THEN IF IsSome(external_crates[id[1]].html_root_url)
         THEN Link(external_crates[id[1]].html_root_url,
                   href_dest(krate_paths[id], prefix_item_kind(krate_paths[id].kind).kind),
                   None, prefix_item_kind(krate_paths[id].kind).kind)
         ELSE NoLink
    ELSE Link(None,
              relative(filepath,
                       href_dest(krate_paths[id], prefix_item_kind(krate_paths[id].kind).kind)),
              None, prefix_item_kind(krate_paths[id].kind).kind)

\* PathBuf::to_str: the components joined by the separator
RECURSIVE to_str(_)
to_str(path) ==
    IF path = <<>> THEN ""
    ELSE IF Len(path) = 1 THEN path[1]
    ELSE path[1] \o "/" \o to_str(Tail(path))

RootUrls == {"https://docs.rs/ext/1.0", "https://docs.rs/ext/1.0/"}

\* external_crate_url.ends_with('/')
ends_with_slash(url) == url = "https://docs.rs/ext/1.0/"

\* TokensToHtml::render for Token::Ident(ident, Some(id)), render.rs:1595-1632:
\* the strings written, given what href returned for the id
render_Ident(ident, h) ==
    IF h.st = "Panic" THEN <<"<span", " class=\"ident">>
    ELSE IF h.st = "None" THEN <<"<span", " class=\"ident", "\">", ident, "</span>">>
    ELSE <<"<span", " class=\"ident", " ", h.type_of, "\">", "<a href=\"">>
         \o (IF ~IsSome(h.external_crate_url) THEN <<>>
             ELSE IF ends_with_slash(Unwrap(h.external_crate_url))
             THEN <<Unwrap(h.external_crate_url)>>
             ELSE <<Unwrap(h.external_crate_url), "/">>)
         \o <<to_str(h.path)>>
         \o (IF IsSome(h.fragment) THEN <<"#", Unwrap(h.fragment)>> ELSE <<>>)
         \o <<"\">", ident, "</a>", "</span>">>

\* fn id, utils.rs:162-208, for the items of the pages: the HTML id of a
\* named item (the impls, named after their tokens, are not rendered here)
html_id(it) ==
    IF ~IsSome(it.name) THEN [st |-> "None", id |-> ""]
    ELSE IF prefix_item(it).st # "Some" THEN [st |-> prefix_item(it).st, id |-> ""]
    ELSE [st |-> "Some", id |-> prefix_item(it).kind \o "." \o Unwrap(it.name)]

Positions == <<"0", "1", "2", "3">>

\* VariantEnchantedWithExtras::from_variant, render.rs:1502-1585: the ids
\* page_context.ids.alloc is handed for a field or variant and its extras
\* (VariantEnchanted::from_item and from_type, render.rs:1449-1490);
\* parent_id + id is "{parent_id}.{id}", id.rs:34-48
variant_ids(it, idx) ==
    IF html_id(it).st # "Some" THEN {}
    ELSE {html_id(it).id}
         \cup (IF it.inner.i # "Variant" THEN {}
               ELSE IF it.inner.kind.v = "Struct"
               THEN {html_id(it).id \o "." \o html_id(idx[f]).id :
                        f \in {g \in Range(it.inner.kind.fields) :
                                  g \in DOMAIN idx /\ html_id(idx[g]).st = "Some"}}
               ELSE IF it.inner.kind.v = "Tuple"
               THEN {html_id(it).id \o ".field." \o Positions[pos] :
                        pos \in 1..Len(it.inner.kind.fields)}
               ELSE {})

\* The ids assigned to the elements of the page of an item through fn id:
\* the fields and variants of struct_union_enum_content (render.rs:1096-1112)
\* and the members of trait_page (CodeEnchanted::from_item with no parent id,
\* render.rs:895-945 and 1314-1349).
page_ids(it, idx) ==
    IF it.inner.i \in {"Struct", "Union", "Enum"}
    THEN UNION {variant_ids(idx[c], idx) : c \in Range(content_ids(it)) \cap DOMAIN idx}
    ELSE IF it.inner.i = "Trait"
    THEN {html_id(idx[m]).id :
             m \in {c \in Range(it.inner.items) \cap DOMAIN idx :
                       /\ idx[c].inner.i \in {"Function", "AssocConst", "AssocType"}
                       /\ html_id(idx[c]).st = "Some"}}
    ELSE {}

DrawId == <<0, 36>>
MetersId == <<0, 37>>
ExtModId == <<1, 6>>
ExtVariantId == <<1, 7>>
ExtDeriveId == <<1, 8>>

\* krate.index for the links: trait Draw with its four members, and a type
\* alias that has no entry in krate.paths
LinkIndex ==
    Krate
 @@ (DrawId :> Item(DrawId, Some("Draw"), Public, <<>>,
                    [i |-> "Trait", is_unsafe |-> FALSE, is_auto |-> FALSE,
                     generics |-> NoGenerics, bounds |-> <<>>,
                     items |-> <<FnA, FnB, ConstA, TypeA>>]))
 @@ (MetersId :> Item(MetersId, Some("Meters"), Public, <<>>,
                      [i |-> "TypeAlias", type_ |-> TPrimitive("u32"),
                       generics |-> NoGenerics]))

\* krate.paths for the links: crate 1 is the external crate ext
LinkPaths ==
    KratePaths
 @@ (DrawId :> KratePath("Trait", <<"k", "Draw">>))
 @@ (ExtModId :> KratePath("Module", <<"ext", "m">>))
 @@ (ExtVariantId :> KratePath("Variant", <<"ext", "Opt", "Some">>))
 @@ (ExtDeriveId :> KratePath("ProcDerive", <<"ext", "Ser">>))

\* krate.external_crates
ExternalCrates(html_root_url) == (1 :> [name |-> "ext", html_root_url |-> html_root_url])

IsExternal(id) == id \in DOMAIN LinkPaths /\ id[1] \in DOMAIN ExternalCrates(None)

\* The pages a link is rendered on, and the ids the identifiers carry.
LinkPages == {PointId, InnerId, ModAId, DrawId}
LinkTargets ==
    DOMAIN LinkPaths \cup {FnA, FnB, ConstA, TypeA, MetersId, FieldX, VarA, Dangling}

\* page_context.filepath of the page of an item: what base_page gives it
\* once the directories above it exist
page_filepath(it) ==
    Unwrap(base_page(Gc(<<<<"mkdir", <<"k">>>>>>
                        \o (IF Len(LinkPaths[it.id].path) = 3 THEN <<<<"mkdir", <<"k", "a">>>>>>
                            ELSE <<>>),
                        <<>>),
                     LinkPaths, None, it).page).filepath

\* The text of the identifier token that carries the id.
IdentOf(id) ==
    IF id \in DOMAIN LinkPaths THEN LinkPaths[id].path[Len(LinkPaths[id].path)]
    ELSE IF id \in DOMAIN LinkIndex /\ IsSome(LinkIndex[id].name)
    THEN Unwrap(LinkIndex[id].name)
    ELSE "leaked"

InitHref ==
    /\ pc = "input"
    /\ item \in {LinkIndex[p] : p \in LinkPages}
    /\ index = LinkIndex
    /\ result = NotRun
    /\ type_in = None
    /\ tokens_in = None
    /\ link_in \in {Some([id |-> id, html_root_url |-> u]) :
                       id \in LinkTargets, u \in {None} \cup {Some(url) : url \in RootUrls}}
    /\ link = NotRun
    /\ attrs_in = <<>>
    /\ html = <<>>
    /\ headings = None /\ events = <<>> /\ html_ids = <<>>
    /\ pushed = NotRun
    /\ stack = <<>> /\ fsops = <<>> /\ paths = <<>> /\ search = <<>> /\ run = NotRun

\* href(global_context, page_context, id) on the page of item, and the
\* identifier as TokensToHtml::render writes it
Href ==
    /\ pc = "input"
    /\ link' = [href |-> href(LinkPaths, index,
                              ExternalCrates(Unwrap(link_in).html_root_url),
                              page_filepath(item), Unwrap(link_in).id),
                html |-> render_Ident(IdentOf(Unwrap(link_in).id),
                                      href(LinkPaths, index,
                                           ExternalCrates(Unwrap(link_in).html_root_url),
                                           page_filepath(item), Unwrap(link_in).id))]
    /\ pc' = "done"
    /\ UNCHANGED <<item, index, result, type_in, link_in, tokens_in, html, headings, events, html_ids, attrs_in, pushed>>
    /\ UNCHANGED htmlvars

NextHref == Href

SpecHref == InitHref /\ [][NextHref]_vars

----------------------------------------------------------------------------
(* TokensToHtml::render, render.rs:1588-1688: the strings written for the  *)
(* tokens of an item, on a page of a crate whose paths are empty.          *)

\* render.rs:1651-1655: the escaping of a punctuation
escape_ponct(p) ==
    IF p = ">" THEN "&gt;"
    ELSE IF p = "<" THEN "&lt;"
    ELSE IF p = "&" THEN "&amp;"
    ELSE p

\* The same with only a ";" ending the where clause.
in_where_clause_at_semicolon(toks, i) ==
    \E j \in 1..(i - 1) :
        /\ toks[j][1] = "Kw" /\ toks[j][2] = "where"
        /\ \A k \in (j + 1)..(i - 1) : ~(toks[k][1] = "Ponct" /\ toks[k][2] = ";")

\* render.rs:1633-1642 and 1644-1649: in_where_clause when the loop reaches
\* turn i, set by the last "where" before it unless a ";" or a "{" followed
in_where_clause_at(toks, i) ==
    \E j \in 1..(i - 1) :
        /\ toks[j][1] = "Kw" /\ toks[j][2] = "where"
        /\ \A k \in (j + 1)..(i - 1) : ~(toks[k][1] = "Ponct" /\ toks[k][2] \in {";", "{"})

\* one turn of the loop of render.rs:1593-1682: the strings written for a token
render_token(idx, token, in_where_clause) ==
    CASE token[1] = "Ident" ->
             IF IsSome(token[3])
             THEN render_Ident(token[2], href(<<>>, idx, <<>>, <<"index.html">>,
                                              Unwrap(token[3])))
             ELSE <<"<span", ">", token[2], "</span>">>
      [] token[1] = "Kw" ->
             (IF token[2] = "where" THEN <<"<span class=\"where-clause\">">> ELSE <<>>)
             \o <<"<span class=\"kw\">", token[2], "</span>">>
      [] token[1] = "Ponct" ->
             (IF token[2] \in {";", "{"} /\ in_where_clause THEN <<"</span>">> ELSE <<>>)
             \o <<"<span class=\"ponct\">", escape_ponct(token[2]), "</span>">>
      [] token[1] = "Attr" -> <<"<span class=\"attr\">", token[2], "</span>">>
      [] token[1] = "Primitive" -> <<"<span class=\"primitive\">", token[2], "</span>">>
      [] token[1] = "Special" ->
             CASE token[2] = "NewLine" -> <<"<br>">>
               [] token[2] = "Space" -> <<"&nbsp;">>
               [] token[2] = "Tabulation" -> <<"&nbsp;&nbsp;&nbsp;&nbsp;">>
               [] token[2] = "HiddenAll" -> <<"/* fields hidden */">>
               [] token[2] = "HiddenSome" -> <<"/* some fields hidden */">>
               [] token[2] = "Ignored" -> <<"...">>

\* the unwrap of render.rs:1601 through href, utils.rs:305: the turn panicked
render_panicked(idx, token) ==
    /\ token[1] = "Ident"
    /\ IsSome(token[3])
    /\ href(<<>>, idx, <<>>, <<"index.html">>, Unwrap(token[3])).st = "Panic"

\* the strings written by the turns lo..hi of the loop of render.rs:1593-1682,
\* the range split in halves to bound the depth of the evaluation
RECURSIVE render_loop(_, _, _, _)
render_loop(idx, toks, lo, hi) ==
    IF lo > hi THEN <<>>
    ELSE IF lo = hi THEN render_token(idx, toks[lo], in_where_clause_at(toks, lo))
    ELSE render_loop(idx, toks, lo, (lo + hi) \div 2)
         \o render_loop(idx, toks, (lo + hi) \div 2 + 1, hi)

\* the turns of the loop that panic
panicking(idx, toks) == {i \in 1..Len(toks) : render_panicked(idx, toks[i])}

\* fn render, render.rs:1591-1688: the loop up to the first turn that
\* panics, if one does, and otherwise the whole loop and the closing of
\* the where clause left open, render.rs:1684-1686
TokensToHtml_render(idx, toks) ==
    IF panicking(idx, toks) # {}
    THEN render_loop(idx, toks, 1,
                     CHOOSE i \in panicking(idx, toks) :
                         \A j \in panicking(idx, toks) : i <= j)
    ELSE render_loop(idx, toks, 1, Len(toks))
         \o (IF in_where_clause_at(toks, Len(toks) + 1) THEN <<"</span>">> ELSE <<>>)

\* Two trait members that carry a where clause of their own: a provided
\* method, whose clause ends at its "{", and an associated type, whose
\* clause ends at its ";"
FnW == <<0, 50>>
TypeW == <<0, 51>>

WhereWorld ==
    World
 @@ (FnW :> Item(FnW, Some("each"), Default, <<>>,
                 Function(RustHeader,
                          Generics(<<TypeParam("T", FALSE)>>, SubSeq(PredPool, 1, 1)),
                          <<>>, None, FALSE, TRUE)))
 @@ (TypeW :> Item(TypeW, Some("Out"), Default, <<>>,
                   [i |-> "AssocType", bounds |-> <<>>, default |-> None,
                    generics |-> Generics(<<TypeParam("T", FALSE)>>,
                                          SubSeq(PredPool, 1, 1))]))

WhereTraits ==
    {Item(ParentId, Some("Draw"), Public, <<>>,
          [i |-> "Trait", is_unsafe |-> FALSE, is_auto |-> FALSE, generics |-> g,
           bounds |-> <<>>, items |-> ms]) :
        g \in GenericsChoices, ms \in {<<FnW>>, <<TypeW, FnW>>, <<FnW, TypeW, FnA>>}}

InitTokensToHtml ==
    /\ pc = "input"
    /\ \/ item \in Items /\ index \in Indexes
       \/ item \in WhereTraits /\ index = WhereWorld
    /\ index = EmptyIndex => item.visibility = Public /\ item.inner.i # "Function"
    /\ result = NotRun
    /\ type_in = None
    /\ tokens_in = None
    /\ link_in = None /\ link = NotRun
    /\ attrs_in = <<>>
    /\ html = <<>>
    /\ headings = None /\ events = <<>> /\ html_ids = <<>>
    /\ pushed = NotRun
    /\ stack = <<>> /\ fsops = <<>> /\ paths = <<>> /\ search = <<>> /\ run = NotRun

\* render.rs:1314-1349: the tokens of the item, once lowered, are rendered
RenderTokens ==
    /\ pc = "done"
    /\ result.st = "Ok"
    /\ html' = TokensToHtml_render(index, result.toks)
    /\ pc' = "rendered"
    /\ UNCHANGED <<item, index, result, type_in, link_in, link, tokens_in, headings, events, html_ids, attrs_in, pushed>>
    /\ UNCHANGED htmlvars

NextTokensToHtml == Lower \/ RenderTokens

SpecTokensToHtml == InitTokensToHtml /\ [][NextTokensToHtml]_vars

----------------------------------------------------------------------------
(* The Headings adapter, markdown.rs:350-438.  An Event is a record; a     *)
(* text is the sequence of its characters.                                 *)

StartTag(tag) == [e |-> "Start", tag |-> tag, level |-> 0]
EndTag(tag) == [e |-> "End", tag |-> tag, level |-> 0]
StartHeading(level) == [e |-> "Start", tag |-> "Heading", level |-> level]
EndHeading(level) == [e |-> "End", tag |-> "Heading", level |-> level]
Text(s) == [e |-> "Text", s |-> s]
Code(s) == [e |-> "Code", s |-> s]
Html(s) == [e |-> "Html", html |-> s]

\* char::is_alphanumeric, char::is_whitespace and char::to_ascii_lowercase
\* on the characters of the texts
is_alphanumeric(c) == c \in {"A", "a", "b"}
is_whitespace(c) == c = " "
to_ascii_lowercase(c) == IF c = "A" THEN "a" ELSE c

\* str::trim
RECURSIVE trim_start(_)
trim_start(s) ==
    IF s # <<>> /\ is_whitespace(Head(s)) THEN trim_start(Tail(s)) ELSE s

RECURSIVE trim_end(_)
trim_end(s) ==
    IF s # <<>> /\ is_whitespace(s[Len(s)])
    THEN trim_end(SubSeq(s, 1, Len(s) - 1)) ELSE s

trim(s) == trim_end(trim_start(s))

\* markdown.rs:402-409: the id made of the characters of the trimmed text
RECURSIVE heading_id(_)
heading_id(s) ==
    IF s = <<>> THEN ""
    ELSE IF is_alphanumeric(Head(s)) THEN to_ascii_lowercase(Head(s)) \o heading_id(Tail(s))
    ELSE IF is_whitespace(Head(s)) THEN "-" \o heading_id(Tail(s))
    ELSE heading_id(Tail(s))

\* markdown.rs:390-393: the turn of the loop that breaks, one past the
\* events of inner if none does
heading_end(inner) ==
    IF \E i \in 1..Len(inner) : inner[i].e = "End" /\ inner[i].tag = "Heading"
    THEN CHOOSE i \in 1..Len(inner) :
             /\ inner[i].e = "End" /\ inner[i].tag = "Heading"
             /\ \A j \in 1..(i - 1) : ~(inner[j].e = "End" /\ inner[j].tag = "Heading")
    ELSE Len(inner) + 1

\* markdown.rs:394-397: the text of the Text and Code events
RECURSIVE original_text(_)
original_text(evs) ==
    IF evs = <<>> THEN <<>>
    ELSE IF Head(evs).e \in {"Text", "Code"} THEN Head(evs).s \o original_text(Tail(evs))
    ELSE original_text(Tail(evs))

\* markdown.rs:393-399: the events pushed to buf, all but those of a link
RECURSIVE buffered(_)
buffered(evs) ==
    IF evs = <<>> THEN <<>>
    ELSE IF Head(evs).e \in {"Start", "End"} /\ Head(evs).tag = "Link"
    THEN buffered(Tail(evs))
    ELSE <<Head(evs)>> \o buffered(Tail(evs))

\* pulldown_cmark's HeadingLevel::try_from(usize): H1 to H6
HeadingLevel_try_from(n) == IF n \in 1..6 THEN Some(n) ELSE None

\* markdown.rs:402-416: the HtmlId of the heading that inner starts with,
\* the events after its Start already taken from inner
HtmlId_of(parent_id, inner) ==
    (IF IsSome(parent_id) THEN Unwrap(parent_id) \o "." ELSE "")
    \o heading_id(trim(original_text(SubSeq(inner, 1, heading_end(inner) - 1))))

\* markdown.rs:421 and 423-428: start_html and end_html
start_html(level, id) == "<h" \o ToString(level) \o " class=\"rd-anchor\" id=\"" \o id \o "\">"

end_html(level, id) ==
    "<a aria-label=\"anchor\" href=\"#" \o id \o "\"><i class=\"bi bi-hash\"></i></a></h"
    \o ToString(level) \o ">"

\* markdown.rs:389-436: a heading of the level was started; inner holds
\* the events after its Start
Headings_heading(h, ids, level, inner) ==
    IF ~IsSome(HeadingLevel_try_from(level + 1))
    THEN [st |-> "Panic", ret |-> None, ids |-> ids,
          h |-> [h EXCEPT !.inner = SubSeq(inner, heading_end(inner) + 1, Len(inner)),
                          !.buf = buffered(SubSeq(inner, 1, heading_end(inner) - 1))]]
    ELSE [st |-> "Ok",
          ret |-> Some(Html(start_html(level + 1, HtmlId_of(h.parent_id, inner)))),
          ids |-> IF IsSome(h.toc) THEN Append(ids, HtmlId_of(h.parent_id, inner)) ELSE ids,
          h |-> [h EXCEPT
                   !.inner = SubSeq(inner, heading_end(inner) + 1, Len(inner)),
                   !.buf = Append(buffered(SubSeq(inner, 1, heading_end(inner) - 1)),
                                  Html(end_html(level + 1, HtmlId_of(h.parent_id, inner)))),
                   !.toc = IF IsSome(h.toc)
                           THEN Some(Append(Unwrap(h.toc),
                                            <<level + 1,
                                              original_text(SubSeq(inner, 1,
                                                                   heading_end(inner) - 1)),
                                              HtmlId_of(h.parent_id, inner)>>))
                           ELSE None]]

\* fn next, markdown.rs:379-437, on the adapter h and page_context.ids
Headings_next(h, ids) ==
    IF h.buf # <<>>
    THEN [st |-> "Ok", ret |-> Some(Head(h.buf)), ids |-> ids,
          h |-> [h EXCEPT !.buf = Tail(h.buf)]]
    ELSE IF h.inner = <<>>
    THEN [st |-> "Ok", ret |-> None, ids |-> ids, h |-> h]
    ELSE IF ~(Head(h.inner).e = "Start" /\ Head(h.inner).tag = "Heading")
    THEN [st |-> "Ok", ret |-> Some(Head(h.inner)), ids |-> ids,
          h |-> [h EXCEPT !.inner = Tail(h.inner)]]
    ELSE Headings_heading(h, ids, Head(h.inner).level, Tail(h.inner))

MaxBlocks == 2

\* The texts of the headings: two of the same id, and one to trim
HeadingTexts == {<<"A">>, <<"a", "!">>, <<" ", "a", " ", "b", " ">>}

\* The blocks of a documentation text as pulldown_cmark parses them: a
\* heading of every level, headings of other texts, a heading whose text
\* is a link to a code span, and a paragraph
Blocks ==
    {<<StartHeading(level), Text(<<"A">>), EndHeading(level)>> : level \in 1..6}
    \cup {<<StartHeading(2), Text(s), EndHeading(2)>> : s \in HeadingTexts}
    \cup {<<StartHeading(2), StartTag("Link"), Code(<<"a", " ", "b">>), EndTag("Link"),
            EndHeading(2)>>,
          <<StartTag("Paragraph"), Text(<<"b", "!">>), EndTag("Paragraph")>>}

RECURSIVE Flatten(_)
Flatten(blocks) == IF blocks = <<>> THEN <<>> ELSE Head(blocks) \o Flatten(Tail(blocks))

Docs == {Flatten(bs) : bs \in SeqsUpTo(Blocks, MaxBlocks)}

\* markdown.rs:111 and 192: the adapter over the documentation of an item,
\* with the id of the item and no table of contents, and the one over the
\* documentation of the page, with a table of contents and no parent
InitHeadings ==
    /\ pc = "headings"
    /\ item = World[FieldX]
    /\ index = World
    /\ result = NotRun
    /\ type_in = None
    /\ tokens_in = None
    /\ link_in = None /\ link = NotRun
    /\ attrs_in = <<>>
    /\ html = <<>>
    /\ headings \in {[inner |-> d, buf |-> <<>>, parent_id |-> c[1], toc |-> c[2]] :
                        d \in Docs, c \in {<<Some("structfield.x"), None>>,
                                           <<None, Some(<<>>)>>}}
    /\ events = <<>>
    /\ html_ids = <<>>
    /\ pushed = NotRun
    /\ stack = <<>> /\ fsops = <<>> /\ paths = <<>> /\ search = <<>> /\ run = NotRun

\* one call of next by the HTML writer; None ends the iteration
HeadingsNext ==
    /\ pc = "headings"
    /\ headings' = Headings_next(headings, html_ids).h
    /\ html_ids' = Headings_next(headings, html_ids).ids
    /\ events' = IF IsSome(Headings_next(headings, html_ids).ret)
                 THEN Append(events, Unwrap(Headings_next(headings, html_ids).ret))
                 ELSE events
    /\ pc' = IF Headings_next(headings, html_ids).st = "Panic" THEN "panic"
             ELSE IF IsSome(Headings_next(headings, html_ids).ret) THEN "headings"
             ELSE "done"
    /\ UNCHANGED <<item, index, result, type_in, link_in, link, tokens_in, html, attrs_in, pushed>>
    /\ UNCHANGED htmlvars

NextHeadings == HeadingsNext

SpecHeadings == InitHeadings /\ [][NextHeadings]_vars

----------------------------------------------------------------------------
(* Properties of Tokens::from_item, checked under SpecPP.                  *)

Lowered == pc = "done"

Failed(e) == [st |-> "Err", toks |-> <<>>, err |-> e]

\* The number of positions of toks holding token t
Count(toks, t) == Cardinality({i \in 1..Len(toks) : toks[i] = t})

\* The k last tokens of toks
Suffix(toks, k) == SubSeq(toks, Len(toks) - k + 1, Len(toks))

\* pub struct Point<T> where T: Copy { x: T, y: T } as a graph
PointFixture ==
    Item(ParentId, Some("Point"), Public, <<>>,
         [i |-> "Struct",
          generics |-> Generics(<<TypeParam("T", FALSE)>>,
                                <<BoundPredicate(TGeneric("T"),
                                                 <<TraitBound("Copy", CopyId)>>, <<>>)>>),
          kind |-> [s |-> "Plain", fields |-> <<FieldX, FieldY>>,
                    fields_stripped |-> FALSE]])

PointTokens ==
    << Kw("pub"), Space, Kw("struct"), Space, Ident("Point", Some(ParentId)),
       Ponct("<"), Ident("T", None), Ponct(">"),
       NewLine, Kw("where"), NewLine, Tabulation,
       Ident("T", None), Ponct(":"), Space, Ident("Copy", Some(CopyId)), Ponct(","),
       NewLine, Ponct("{"),
       Tabulation, NewLine, Tabulation, Ident("x", None), Ponct(":"), Space,
       Ident("T", None), Ponct(","),
       NewLine, Tabulation, Ident("y", None), Ponct(":"), Space, Ident("T", None),
       Ponct(","),
       NewLine, Ponct("}") >>

\* C1, as amended: for the Point fixture (public struct Point, one type
\* parameter T, one where-predicate T: Copy, two private named fields x: T and
\* y: T, not stripped, both in the index) from_item succeeds and the tokens
\* are PointTokens, which Display renders as the text below: a comma follows
\* the last where-predicate and a Tabulation stands between `{` and the
\* NewLine after it.
C1_PointRendering ==
    (Lowered /\ item = PointFixture /\ index = World) =>
        /\ result.st = "Ok"
        /\ result.toks = PointTokens
        /\ Display(result.toks)
             = "pub struct Point<T>\nwhere\n    T: Copy,\n{    \n    x: T,\n    y: T,\n}"

\* The Point fixture has been lowered
C1_PointLowered ==
    Lowered /\ item = PointFixture /\ index = World /\ result.st = "Ok"

\* C1, as stated: the Point fixture renders with no comma after `T: Copy` and
\* nothing between `{` and the end of its line.
C1_AsStated ==
    (Lowered /\ item = PointFixture /\ index = World) =>
        /\ result.st = "Ok"
        /\ Display(result.toks)
             = "pub struct Point<T>\nwhere\n    T: Copy\n{\n    x: T,\n    y: T,\n}"

\* The ids in the Some positions of a list of Option<Id>
RECURSIVE Somes(_)
Somes(opts) ==
    IF opts = <<>> THEN <<>>
    ELSE IF IsSome(Head(opts)) THEN <<Unwrap(Head(opts))>> \o Somes(Tail(opts))
    ELSE Somes(Tail(opts))

\* The child ids an item lists itself
ChildIds(it) ==
    CASE it.inner.i = "Struct" ->
            IF it.inner.kind.s = "Plain" THEN it.inner.kind.fields
            ELSE IF it.inner.kind.s = "Tuple" THEN Somes(it.inner.kind.fields)
            ELSE <<>>
      [] it.inner.i = "Union" -> it.inner.fields
      [] it.inner.i = "Enum" -> it.inner.variants
      [] it.inner.i = "Trait" -> it.inner.items
      [] it.inner.i = "Variant" ->
            IF it.inner.kind.v = "Plain" THEN <<>>
            ELSE IF it.inner.kind.v = "Tuple" THEN Somes(it.inner.kind.fields)
            ELSE it.inner.kind.fields
      [] OTHER -> <<>>

\* The kinds a child of the item may have
ChildKinds(it) ==
    CASE it.inner.i \in {"Struct", "Union", "Variant"} -> {"StructField"}
      [] it.inner.i = "Enum" -> {"Variant"}
      [] it.inner.i = "Trait" -> {"AssocConst", "AssocType", "Function"}
      [] OTHER -> {}

\* The child ids of the item and, for an enum, of its variants, in order
RECURSIVE GrandChildIds(_, _)
GrandChildIds(ids, idx) ==
    IF ids = <<>> THEN <<>>
    ELSE (IF Head(ids) \in DOMAIN idx /\ idx[Head(ids)].inner.i = "Variant"
          THEN ChildIds(idx[Head(ids)]) ELSE <<>>)
         \o GrandChildIds(Tail(ids), idx)

AllChildIds(it, idx) ==
    ChildIds(it) \o (IF it.inner.i = "Enum" THEN GrandChildIds(ChildIds(it), idx) ELSE <<>>)

Missing(ids, idx) == {i \in 1..Len(ids) : ids[i] \notin DOMAIN idx}

\* Every child that resolves has a kind its parent allows
ChildrenTyped(it, idx) ==
    /\ \A i \in 1..Len(ChildIds(it)) :
          ChildIds(it)[i] \in DOMAIN idx
              => idx[ChildIds(it)[i]].inner.i \in ChildKinds(it)
    /\ it.inner.i = "Enum" =>
          \A i \in 1..Len(GrandChildIds(ChildIds(it), idx)) :
              GrandChildIds(ChildIds(it), idx)[i] \in DOMAIN idx
                  => idx[GrandChildIds(ChildIds(it), idx)[i]].inner.i = "StructField"

\* A struct, union, enum or trait with exactly one child id, of its own or of
\* one of its variants, that is not a key of the index, and nothing else wrong
OneDanglingChild(it, idx) ==
    /\ it.inner.i \in {"Struct", "Union", "Enum", "Trait"}
    /\ Cardinality(Missing(AllChildIds(it, idx), idx)) = 1
    /\ ChildrenTyped(it, idx)

TheDanglingChild(it, idx) ==
    AllChildIds(it, idx)[CHOOSE i \in Missing(AllChildIds(it, idx), idx) : TRUE]

\* C2: a struct, union, enum or trait with exactly one dangling child id and
\* nothing else wrong is refused with Err(ChildrenNotFound(id)) for that id,
\* with no tokens and no panic.
C2_ChildrenNotFound ==
    (Lowered /\ OneDanglingChild(item, index)) =>
        result = Failed(ChildrenNotFound(TheDanglingChild(item, index)))

\* C4: from_item returns Err(InvalidItem) with no tokens for a Module and for
\* an ExternCrate, whatever the index holds, and InvalidItem for no other kind.
C4_InvalidItem ==
    Lowered =>
        /\ item.inner.i \in {"Module", "ExternCrate"} => result = Failed(InvalidItem)
        /\ result.err = InvalidItem => item.inner.i \in {"Module", "ExternCrate"}

\* A module has been refused under an index that holds nothing
C4_ModuleRefused ==
    /\ Lowered /\ item.inner.i = "Module" /\ index = EmptyIndex
    /\ result = Failed(InvalidItem)

\* C5: Err(UnexpectedItemType(id, kind)) names the kind the child at that
\* position should have had: StructField for a field of a struct, a union or
\* a variant, Variant for a variant of an enum, and a trait-member kind,
\* never Trait, for a trait item.
C5_ExpectedKind ==
    (Lowered /\ result.st = "Err" /\ result.err[1] = "UnexpectedItemType") =>
        CASE item.inner.i \in {"Struct", "Union", "Variant"} ->
                result.err[3] = "StructField"
          [] item.inner.i = "Enum" ->
                result.err[3] = IF \E i \in 1..Len(item.inner.variants) :
                                       item.inner.variants[i] = result.err[2]
                                THEN "Variant" ELSE "StructField"
          [] item.inner.i = "Trait" ->
                result.err[3] \in {"AssocConst", "AssocType", "Function"}
          [] OTHER -> FALSE

\* The tokens the visibility table gives
VisibilityPrefix(visibility) ==
    CASE visibility.v = "Public" -> <<Kw("pub"), Space>>
      [] visibility.v = "Crate" ->
            <<Kw("pub"), Ponct("("), Kw("crate"), Ponct(")"), Space>>
      [] visibility.v = "Restricted" ->
            <<Kw("pub"), Ponct("("), Kw("in"), Space,
              Ident(visibility.path, Some(visibility.parent)), Ponct(")"), Space>>
      [] visibility.v = "Default" -> <<>>

\* The token that follows the visibility of an item without attributes
AfterVisibility(it) ==
    CASE it.inner.i = "Struct" -> Kw("struct")
      [] it.inner.i = "Union" -> Kw("union")
      [] it.inner.i = "Enum" -> Kw("enum")
      [] it.inner.i = "Trait" ->
            IF it.inner.is_unsafe THEN Kw("unsafe")
            ELSE IF it.inner.is_auto THEN Kw("auto") ELSE Kw("trait")
      [] it.inner.i = "TypeAlias" -> Kw("type")
      [] it.inner.i = "StructField" -> Ident(Unwrap(it.name), None)
      [] it.inner.i = "Function" ->
            IF it.inner.header.const_ THEN Kw("const")
            ELSE IF it.inner.header.unsafe_ THEN Kw("unsafe")
            ELSE IF it.inner.header.async_ THEN Kw("async")
            ELSE IF it.inner.header.abi # "Rust" THEN Kw("extern")
            ELSE Kw("fn")

HasVisibility(it) ==
    it.inner.i \in {"Struct", "Union", "Enum", "Trait", "TypeAlias", "StructField",
                    "Function"}

\* C8: the tokens of an item start with the prefix of its visibility, Public ->
\* pub Space, Crate -> pub ( crate ) Space, Restricted -> pub ( in Space
\* Ident(path, Some(parent)) ) Space, Default -> nothing, and go on with the
\* item's own first token.
C8_VisibilityPrefix ==
    (Lowered /\ result.st = "Ok" /\ HasVisibility(item) /\ item.attrs = <<>>) =>
        /\ Len(result.toks) > Len(VisibilityPrefix(item.visibility))
        /\ SubSeq(result.toks, 1, Len(VisibilityPrefix(item.visibility)) + 1)
             = VisibilityPrefix(item.visibility) \o <<AfterVisibility(item)>>

\* An item restricted to a path has been lowered
C8_RestrictedLowered ==
    /\ Lowered /\ result.st = "Ok" /\ item.visibility.v = "Restricted"
    /\ \E i \in 1..Len(result.toks) : result.toks[i] = Ident("crate::a", Some(RootId))

\* The record struct, union or enum whose body the hidden placeholders close
HasBody(it) ==
    \/ it.inner.i = "Struct" /\ it.inner.kind.s = "Plain"
    \/ it.inner.i \in {"Union", "Enum"}

Stripped(it) ==
    CASE it.inner.i = "Struct" -> it.inner.kind.fields_stripped
      [] it.inner.i = "Union" -> it.inner.fields_stripped
      [] it.inner.i = "Enum" -> it.inner.variants_stripped

\* The positions of the names of the item's children among the tokens
NamePositions(it, idx, toks) ==
    [i \in 1..Len(ChildIds(it)) |->
        {p \in 1..Len(toks) :
            toks[p] = Ident(Unwrap(idx[ChildIds(it)[i]].name), None)}]

\* C9: in a record struct, a union and an enum, a set stripped flag with no
\* child gives exactly one Hidden{all: true} and no Hidden{all: false}; a set
\* flag with children gives every child and then exactly one
\* Hidden{all: false}, and no Hidden{all: true}; a clear flag gives no Hidden
\* token.
C9_HiddenPlaceholders ==
    (Lowered /\ result.st = "Ok" /\ HasBody(item)) =>
        IF ~Stripped(item)
        THEN Count(result.toks, Hidden(TRUE)) = 0 /\ Count(result.toks, Hidden(FALSE)) = 0
        ELSE IF ChildIds(item) = <<>>
        THEN Count(result.toks, Hidden(TRUE)) = 1 /\ Count(result.toks, Hidden(FALSE)) = 0
        ELSE /\ Count(result.toks, Hidden(TRUE)) = 0
             /\ Count(result.toks, Hidden(FALSE)) = 1
             /\ \A i \in 1..Len(ChildIds(item)) :
                   \E p \in NamePositions(item, index, result.toks)[i] :
                       \E h \in p + 1..Len(result.toks) : result.toks[h] = Hidden(FALSE)
             /\ Suffix(result.toks, 3) = <<Hidden(FALSE), NewLine, Ponct("}")>>

\* A stripped body with children has been lowered
C9_SomeHidden ==
    /\ Lowered /\ result.st = "Ok" /\ HasBody(item) /\ Stripped(item)
    /\ Len(ChildIds(item)) = MaxChildren

\* C10: a function without a body ends with `;` and has no Ignored token
\* and no brace; a function with a body ends with { Space Ignored Space } and
\* no `;` terminates it.
C10_FunctionTerminator ==
    (Lowered /\ item.inner.i = "Function") =>
        /\ result.st = "Ok"
        /\ IF ~item.inner.has_body
           THEN /\ Suffix(result.toks, 1) = <<Ponct(";")>>
                /\ Count(result.toks, Ignored) = 0
                /\ Count(result.toks, Ponct("{")) = 0
                /\ Count(result.toks, Ponct("}")) = 0
           ELSE /\ Len(result.toks) >= 5
                /\ Suffix(result.toks, 5)
                     = <<Ponct("{"), Space, Ignored, Space, Ponct("}")>>
                /\ Count(result.toks, Ignored) = 1

\* A function with a body, a where clause and MaxInputs parameters has been
\* lowered
C10_BodyLowered ==
    /\ Lowered /\ item.inner.i = "Function" /\ item.inner.has_body
    /\ Len(item.inner.decl.inputs) = MaxInputs
    /\ item.inner.generics.where_predicates # <<>>
    /\ result.st = "Ok"

\* A type parameter rustdoc made up for an argument-position impl Trait
Synthetic(p) == p.kind.k = "Type" /\ p.kind.synthetic

\* The declared parameters come first, the synthetic ones after them
ExplicitThenSynthetic(params) ==
    \A i, j \in 1..Len(params) :
        (i < j /\ Synthetic(params[i])) => Synthetic(params[j])

NotSynthetic(p) == ~Synthetic(p)
ExplicitParams(params) == SelectSeq(params, NotSynthetic)

\* The names of parameters without bounds, separated by `, `
RECURSIVE ParamNames(_)
ParamNames(ps) ==
    IF ps = <<>> THEN <<>>
    ELSE <<Ident(Head(ps).name, None)>>
         \o (IF Tail(ps) = <<>> THEN <<>> ELSE CommaSpace \o ParamNames(Tail(ps)))

AngleList(ps) ==
    IF ps = <<>> THEN <<>> ELSE <<Ponct("<")>> \o ParamNames(ps) \o <<Ponct(">")>>

NamePosition(it, toks) ==
    CHOOSE p \in 1..Len(toks) : toks[p] = Ident(Unwrap(it.name), Some(it.id))

ImplInputCount(decl) ==
    Cardinality({i \in 1..Len(decl.inputs) : decl.inputs[i][2].t = "ImplTrait"})

\* C11: for a function whose generic parameters are its declared parameters
\* followed by synthetic impl-named type parameters, the angle-bracket list
\* after the name is exactly the declared parameters in order, with no `<`
\* and `>` when there is none, and every impl Trait parameter type is still
\* printed.
C11_ExplicitPrefixPrinted ==
    (/\ Lowered /\ item.inner.i = "Function" /\ IsSome(item.name)
     /\ ExplicitThenSynthetic(item.inner.generics.params)) =>
        /\ result.st = "Ok"
        /\ SubSeq(result.toks, NamePosition(item, result.toks) + 1,
                  NamePosition(item, result.toks)
                      + Len(AngleList(ExplicitParams(item.inner.generics.params))) + 1)
             = AngleList(ExplicitParams(item.inner.generics.params)) \o <<Ponct("(")>>
        /\ Count(result.toks, Kw("impl")) = ImplInputCount(item.inner.decl)


\* The texts of the tokens of toks whose text is in S, in order
RECURSIVE NamesIn(_, _)
NamesIn(toks, S) ==
    IF toks = <<>> THEN <<>>
    ELSE (IF Head(toks)[2] \in S THEN <<Head(toks)[2]>> ELSE <<>>)
         \o NamesIn(Tail(toks), S)

\* The position of the first t at or after from, Len(toks) + 1 without one
First(toks, t, from) ==
    IF \E p \in from..Len(toks) : toks[p] = t
    THEN CHOOSE p \in from..Len(toks) :
             toks[p] = t /\ \A q \in from..(p - 1) : toks[q] # t
    ELSE Len(toks) + 1

Min(a, b) == IF a <= b THEN a ELSE b

\* The tokens from position a to position b, or to the last one
Slice(toks, a, b) == SubSeq(toks, a, Min(b, Len(toks)))

\* The tokens after position from of the generic parameter list, of the where
\* clause, of the parenthesised list and of the braced body
ParamsRegion(toks, from) ==
    Slice(toks, First(toks, Ponct("<"), from), First(toks, Ponct(">"), from))
WhereRegion(toks, from) ==
    Slice(toks, First(toks, Kw("where"), from),
          Min(First(toks, Ponct("("), First(toks, Kw("where"), from)),
              Min(First(toks, Ponct("{"), First(toks, Kw("where"), from)),
                  First(toks, Ponct(";"), First(toks, Kw("where"), from)))))
ParenRegion(toks, from) ==
    Slice(toks, First(toks, Ponct("("), from), First(toks, Ponct(")"), from))
BodyRegion(toks, from) == Slice(toks, First(toks, Ponct("{"), from), Len(toks))

\* The text each child is known by in the output: the name of a parameter,
\* the bounded type or lifetime of a predicate, the name of a field, variant
\* or member, the type of a tuple field, the name of an input (the type of
\* self)
ParamKeys(params) == [i \in 1..Len(params) |-> params[i].name]
PredicateKeys(preds) ==
    [i \in 1..Len(preds) |->
        IF preds[i].w = "BoundPredicate" THEN preds[i].type_.name ELSE preds[i].lifetime]
ChildKeys(ids, idx) == [i \in 1..Len(ids) |-> Unwrap(idx[ids[i]].name)]
TupleKeys(fields, idx) ==
    [i \in 1..Len(fields) |->
        IF IsSome(fields[i]) THEN idx[Unwrap(fields[i])].inner.type_.name ELSE "_"]
InputKeys(inputs) ==
    [i \in 1..Len(inputs) |-> IF inputs[i][1] = "self" THEN "Self" ELSE inputs[i][1]]

\* The children of the list appear in the tokens once each, in the list's order
OrderKept(toks, keys) == NamesIn(toks, Range(keys)) = keys

\* The children of the list that appear in the tokens appear in the list's
\* order, as many times as the list holds them
InKey(toks, key) == key \in Range(NamesIn(toks, {key}))
RelativeOrderKept(toks, keys) ==
    NamesIn(toks, Range(keys)) = SelectSeq(keys, LAMBDA k : InKey(toks, k))

HasGenerics(it) == it.inner.i \in {"Struct", "Union", "Enum", "Trait", "Function"}

AfterName == NamePosition(item, result.toks)

\* C12: the children of every ordered list of an item (generic parameters,
\* where-predicates, fields, variants, trait members, function inputs) appear
\* in the output in the order of the list in the graph, a child listed twice
\* appearing twice.
C12_GraphOrder ==
    (Lowered /\ result.st = "Ok" /\ HasGenerics(item)) =>
        /\ item.inner.generics.params # <<>> =>
              RelativeOrderKept(ParamsRegion(result.toks, AfterName),
                                ParamKeys(item.inner.generics.params))
        /\ OrderKept(WhereRegion(result.toks, AfterName),
                     PredicateKeys(item.inner.generics.where_predicates))
        /\ CASE item.inner.i = "Struct" ->
                    CASE item.inner.kind.s = "Plain" ->
                            OrderKept(BodyRegion(result.toks, AfterName),
                                      ChildKeys(item.inner.kind.fields, index))
                      [] item.inner.kind.s = "Tuple" ->
                            OrderKept(ParenRegion(result.toks, AfterName),
                                      TupleKeys(item.inner.kind.fields, index))
                      [] OTHER -> TRUE
             [] item.inner.i = "Union" ->
                    OrderKept(BodyRegion(result.toks, AfterName), ChildKeys(item.inner.fields, index))
             [] item.inner.i = "Enum" ->
                    OrderKept(BodyRegion(result.toks, AfterName),
                              ChildKeys(item.inner.variants, index))
             [] item.inner.i = "Trait" ->
                    OrderKept(BodyRegion(result.toks, AfterName), ChildKeys(item.inner.items, index))
             [] item.inner.i = "Function" ->
                    OrderKept(ParenRegion(result.toks, AfterName), InputKeys(item.inner.decl.inputs))

\* A function with its parameters and inputs against the byte order of their
\* names and a predicate listed twice has been lowered
C12_UnsortedLowered ==
    /\ Lowered /\ result.st = "Ok" /\ item.inner.i = "Function"
    /\ ParamKeys(item.inner.generics.params) = <<"U", "T">>
    /\ InputKeys(item.inner.decl.inputs) = <<"c", "a">>
    /\ PredicateKeys(item.inner.generics.where_predicates) = <<"T", "T">>

\* The kinds whose printing needs the name of the item
NeedsName(it) ==
    it.inner.i \in {"TypeAlias", "Constant", "Static", "AssocConst", "AssocType",
                    "Variant", "ProcMacro"}

\* C14: for an item of a kind that needs a name (type alias, constant,
\* static, associated const, associated type, enum variant, proc-macro) and
\* has none, from_item returns an error value and does not panic.
C14_MissingNameIsAnError ==
    (Lowered /\ NeedsName(item) /\ ~IsSome(item.name)) => result.st = "Err"

\* The kinds that print a where clause
PrintsWhere(it) ==
    it.inner.i \in {"Struct", "Union", "Enum", "Trait", "TraitAlias", "Impl", "TypeAlias",
                    "Function", "AssocType"}

\* toks holds sub as a run of consecutive tokens
Contains(toks, sub) ==
    \E k \in 0..(Len(toks) - Len(sub)) : SubSeq(toks, k + 1, k + Len(sub)) = sub

PredicateTokens(pred) == with_where_predicate(NewPusher, pred).toks

\* The predicates from the i-th on, each after `,`, NewLine, Tabulation
RECURSIVE PredicateLines(_, _)
PredicateLines(preds, i) ==
    IF i > Len(preds) THEN <<>>
    ELSE <<Ponct(","), NewLine, Tabulation>> \o PredicateTokens(preds[i])
         \o PredicateLines(preds, i + 1)

WhereClause(preds) ==
    <<NewLine, Kw("where"), NewLine, Tabulation>> \o PredicateTokens(preds[1])
    \o PredicateLines(preds, 2)

\* C15: an item that prints a where clause (struct, union, enum, trait, trait
\* alias, impl, type alias, function, associated type) has no where token
\* when it has no predicate; otherwise it has one clause, NewLine, where,
\* NewLine, Tabulation and the first predicate, then `,`, NewLine,
\* Tabulation before every further predicate.
C15_WhereClauseLines ==
    (Lowered /\ result.st = "Ok" /\ PrintsWhere(item)) =>
        IF item.inner.generics.where_predicates = <<>>
        THEN Count(result.toks, Kw("where")) = 0
        ELSE /\ Count(result.toks, Kw("where")) = 1
             /\ Contains(result.toks, WhereClause(item.inner.generics.where_predicates))

----------------------------------------------------------------------------
(* Properties of Tokens::from_type, checked under SpecType.                *)

\* C13: from_type returns Ok for every type expression, binding of an
\* associated item to a type or to a constant included: it returns none of
\* the errors of from_item and it does not panic.
C13_FromTypeTotal ==
    (pc = "done" /\ IsSome(type_in)) => result.st = "Ok"

QualifierTokens(header) ==
    (IF header.const_ THEN <<Kw("const"), Space>> ELSE <<>>)
    \o (IF header.unsafe_ THEN <<Kw("unsafe"), Space>> ELSE <<>>)
    \o (IF header.async_ THEN <<Kw("async"), Space>> ELSE <<>>)

AbiTokens(header) ==
    IF header.abi = "Rust" THEN <<>>
    ELSE <<Kw("extern"), Space, Ponct("\""), Ident(header.abi, None), Ponct("\""), Space>>

\* The types of the parameters of the function pointers lowered, without
\* their names, separated by `, `
RECURSIVE InputTypes(_)
InputTypes(inputs) ==
    IF inputs = <<>> THEN <<>>
    ELSE <<IF Head(inputs)[2].t = "Primitive" THEN Primitive(Head(inputs)[2].name)
           ELSE Ident(Head(inputs)[2].name, None)>>
         \o (IF Tail(inputs) = <<>> THEN <<>> ELSE CommaSpace \o InputTypes(Tail(inputs)))

\* fn, the generic parameters, the parameter types and the return type
AfterHeader(fn_ptr) ==
    <<Kw("fn")>> \o AngleList(fn_ptr.generic_params)
    \o <<Ponct("(")>> \o InputTypes(fn_ptr.inputs) \o <<Ponct(")")>>
    \o (IF IsSome(fn_ptr.output) THEN Arrow \o <<Primitive(Unwrap(fn_ptr.output).name)>>
        ELSE <<>>)

FnPointerLowered == pc = "done" /\ IsSome(type_in) /\ Unwrap(type_in) \in FnPointers

\* C24 as stated: the ABI, then the qualifier keywords, then fn, the generic
\* parameters, the parameter types and the return type.
C24_AbiThenQualifiers ==
    FnPointerLowered =>
        result.toks = AbiTokens(Unwrap(type_in).header)
                      \o QualifierTokens(Unwrap(type_in).header)
                      \o AfterHeader(Unwrap(type_in))

\* C24: a function pointer is lowered as the qualifier keywords, then the
\* ABI (`extern "abi"`, unless the ABI is Rust), then Kw(fn), the generic
\* parameter list, the parameter types without names in parentheses and the
\* optional `-> ReturnType`.
C24_QualifiersThenAbi ==
    FnPointerLowered =>
        /\ result.st = "Ok"
        /\ result.toks = QualifierTokens(Unwrap(type_in).header)
                         \o AbiTokens(Unwrap(type_in).header)
                         \o AfterHeader(Unwrap(type_in))

\* `unsafe extern "C" fn<'a>(u32, T) -> u32` has been lowered
C24_UnsafeExternLowered ==
    /\ FnPointerLowered
    /\ Unwrap(type_in).header = Header(FALSE, TRUE, FALSE, "C")
    /\ Unwrap(type_in).generic_params # <<>>
    /\ Len(Unwrap(type_in).inputs) = 2
    /\ IsSome(Unwrap(type_in).output)
    /\ result.st = "Ok"
    /\ SubSeq(result.toks, 1, 3) = <<Kw("unsafe"), Space, Kw("extern")>>

\* The first predicate of the where clause of the item lowered
FirstPredicate == item.inner.generics.where_predicates[1]

\* Where the where clause starts in the tokens
AtWhere == First(result.toks, Kw("where"), 1)

\* C23: the `for<...>` of a bound predicate with generic params of its own
\* precedes the bounded type, which `:` and the bounds follow; a predicate
\* without generic params has no `for`.
C23_ForPrefix ==
    (Lowered /\ item \in HigherRankedFunctions) =>
        /\ result.st = "Ok"
        /\ IF FirstPredicate.generic_params = <<>>
           THEN Kw("for") \notin Range(result.toks)
           ELSE /\ Kw("for") \in Range(result.toks)
                /\ First(result.toks, Kw("for"), AtWhere)
                       < First(result.toks, Ident("U", None), AtWhere)
                /\ First(result.toks, Ident("U", None), AtWhere)
                       < First(result.toks, Ponct(":"), AtWhere)

\* The texts of tokens
Texts(toks) == [i \in 1..Len(toks) |-> toks[i][2]]

\* The receiver as written in the source, for the type rustdoc gives it
ReceiverTexts(type_) ==
    IF type_.t = "BorrowedRef"
    THEN <<"&">>
         \o (IF IsSome(type_.lifetime) THEN <<Unwrap(type_.lifetime), "Space">> ELSE <<>>)
         \o (IF type_.mutable THEN <<"mut", "Space">> ELSE <<>>)
         \o <<"self">>
    ELSE <<"self">>

\* The other parameters: `, name: type`
RECURSIVE NamedInputTexts(_)
NamedInputTexts(inputs) ==
    IF inputs = <<>> THEN <<>>
    ELSE <<",", "Space", Head(inputs)[1], ":", "Space", Head(inputs)[2].name>>
         \o NamedInputTexts(Tail(inputs))

\* C25: a parameter named self is lowered as the receiver binding alone
\* (`self`, `&self`, `&mut self`, with the lifetime when there is one),
\* every other parameter as Ident(name), `:`, Space, type.
C25_ReceiverBinding ==
    (Lowered /\ item \in Methods) =>
        /\ result.st = "Ok"
        /\ Texts(ParenRegion(result.toks, 1))
               = <<"(">> \o ReceiverTexts(item.inner.decl.inputs[1][2])
                 \o NamedInputTexts(Tail(item.inner.decl.inputs)) \o <<")">>

\* C26: lowering an enum variant, alone or inside its enum, never panics; a
\* struct variant without fields that is not stripped is lowered as its
\* name and an empty brace body.
C26_VariantNeverPanics ==
    (Lowered /\ item.inner.i \in {"Variant", "Enum"}) =>
        /\ result.st # "Panic"
        /\ item = World[VarE] =>
               /\ result.st = "Ok"
               /\ Ident("E", None) \in Range(result.toks)
               /\ Ponct("{") \in Range(result.toks)
               /\ Ponct("}") \in Range(result.toks)

\* The tokens between the name of the function lowered and its `(`
PrintedParams ==
    Slice(result.toks, NamePosition(item, result.toks) + 1,
          First(result.toks, Ponct("("), NamePosition(item, result.toks)))

\* C27: a generic parameter that with_function leaves out of the printed
\* parameter list is a synthetic type parameter; every lifetime, const and
\* declared type parameter is printed, whatever its name.
C27_OnlySyntheticLeftOut ==
    (Lowered /\ item \in ImplFunctions) =>
        /\ result.st = "Ok"
        /\ \A i \in 1..Len(item.inner.generics.params) :
               NotSynthetic(item.inner.generics.params[i]) =>
                   Ident(item.inner.generics.params[i].name, None) \in Range(PrintedParams)

----------------------------------------------------------------------------
(* Properties of with_attrs, checked under SpecAttrs.                      *)

\* The characters of an attribute's name: the identifier characters that
\* follow `#[`
RECURSIVE NameChars(_)
NameChars(s) ==
    IF s = <<>> \/ ~IsIdentChar(Head(s)) THEN <<>> ELSE <<Head(s)>> \o NameChars(Tail(s))

\* `#[`, a name, then some character that ends the name
WellFormedAttr(a) ==
    /\ Len(a) >= 4
    /\ a[1] = "#" /\ a[2] = "["
    /\ NameChars(SubSeq(a, 3, Len(a))) # <<>>
    /\ Len(NameChars(SubSeq(a, 3, Len(a)))) < Len(a) - 2

AllowList ==
    {"must_use", "export_name", "link_section", "no_mangle", "repr", "non_exhaustive"}

\* One Attr token and one NewLine per attribute of the allow-list, in order
RECURSIVE AttrLines(_)
AttrLines(attrs) ==
    IF attrs = <<>> THEN <<>>
    ELSE (IF Chars(NameChars(SubSeq(Head(attrs), 3, Len(Head(attrs))))) \in AllowList
          THEN <<Attr(Head(attrs)), NewLine>> ELSE <<>>)
         \o AttrLines(Tail(attrs))

\* C6: for every raw attribute string with_attrs yields a name or returns
\* Err(AttributeParsing); it never panics.
C6_NeverPanics ==
    pc = "done" =>
        /\ pushed.st # "Panic"
        /\ pushed.st = "Err" => pushed.err = AttributeParsing

\* C7: for a list of well-formed attributes with_attrs pushes one Attr token
\* per attribute of the allow-list, in the list's order, each followed by a
\* NewLine, and nothing for any other attribute.
C7_AttrPerLine ==
    (pc = "done" /\ \A i \in 1..Len(attrs_in) : WellFormedAttr(attrs_in[i])) =>
        /\ pushed.st = "Ok"
        /\ pushed.toks = AttrLines(attrs_in)

\* Two attributes of the allow-list have been printed
C7_TwoPrinted ==
    /\ pc = "done" /\ Len(attrs_in) = 2
    /\ \A i \in 1..Len(attrs_in) : WellFormedAttr(attrs_in[i])
    /\ Len(pushed.toks) = 4

----------------------------------------------------------------------------
(* Properties of html::render, checked under SpecRender.                   *)

Wrote(path) == \E i \in 1..Len(fsops) : fsops[i] = <<"write", path>>

ItemsOf(it) == {it.items[i] : i \in 1..Len(it.items)}

\* C3: when from_item fails with ChildrenNotFound for one struct of a module,
\* the renderer skips it and goes on: the pages of the module's other items
\* and the module's own page are written and the run ends without error.
C3_SkipsAndContinues ==
    (/\ pc = "done"
     /\ item.inner.i = "Module"
     /\ BrokenId \in ItemsOf(item.inner)
     /\ ItemsOf(item.inner) \subseteq {BrokenId, PointId, RunId}) =>
        /\ run.st = "Ok"
        /\ Wrote(<<"k", "index.html">>)
        /\ PointId \in ItemsOf(item.inner) => Wrote(<<"k", "struct.Point.html">>)
        /\ RunId \in ItemsOf(item.inner) => Wrote(<<"k", "fn.run.html">>)

----------------------------------------------------------------------------
(* Properties of NewLineTabulationPusher, checked under SpecPusher.        *)

PushedThrough == pc = "done" /\ IsSome(tokens_in)

\* What the inner sink received during the pushes
Received == SubSeq(result.toks, Len(Unwrap(tokens_in).inner) + 1, Len(result.toks))

RECURSIVE WithoutTabulation(_)
WithoutTabulation(toks) ==
    IF toks = <<>> THEN <<>>
    ELSE IF Head(toks) = Tabulation THEN WithoutTabulation(Tail(toks))
    ELSE <<Head(toks)>> \o WithoutTabulation(Tail(toks))

TabulationsAt(toks) == {i \in 1..Len(toks) : toks[i] = Tabulation}

\* The places right after a NewLine that another token follows
AfterNewLines(toks) == {i \in 2..Len(toks) : toks[i - 1] = NewLine}

\* C22 as stated: the pushed tokens arrive unchanged and in order, and the
\* Tabulations inserted are exactly one after each NewLine that another
\* pushed token follows.
C22_TabulationOnlyAfterNewLine ==
    PushedThrough =>
        /\ result.st = "Ok"
        /\ WithoutTabulation(Received) = Unwrap(tokens_in).pushed
        /\ TabulationsAt(Received) = AfterNewLines(Received)

\* C22: the pushed tokens arrive unchanged and in order; one Tabulation is
\* inserted before the first pushed token and one after each NewLine that
\* another pushed token follows, and none anywhere else.
C22_TabulationFirstAndAfterNewLine ==
    PushedThrough =>
        /\ result.st = "Ok"
        /\ WithoutTabulation(Received) = Unwrap(tokens_in).pushed
        /\ TabulationsAt(Received)
               = AfterNewLines(Received)
                 \cup (IF Unwrap(tokens_in).pushed = <<>> THEN {} ELSE {1})
        /\ Len(Received) = Len(Unwrap(tokens_in).pushed) + Cardinality(TabulationsAt(Received))

\* `{` then NewLine, x, NewLine pushed through the wrapper
C22_BraceBody ==
    /\ PushedThrough
    /\ Unwrap(tokens_in).inner = <<Ponct("{")>>
    /\ Unwrap(tokens_in).pushed = <<NewLine, Ident("x", None), NewLine>>
    /\ result.toks = <<Ponct("{"), Tabulation, NewLine, Tabulation, Ident("x", None), NewLine>>

----------------------------------------------------------------------------
(* The order of the pages, checked under SpecRender.                       *)

\* <<module page, child page>> for every page allocated inside a module: the
\* last two components of its ItemPath
ChildPages ==
    {<<paths[i][Len(paths[i]) - 1].filepath, paths[i][Len(paths[i])].filepath>> :
        i \in {j \in 1..Len(paths) : Len(paths[j]) >= 2}}

OpsAt(op) == {i \in 1..Len(fsops) : fsops[i] = op}

PageOps(page) == OpsAt(<<"create", page>>) \cup OpsAt(<<"write", page>>)

\* C19 as stated: the page of a module is written before the page of any
\* of its children is generated.
C19_WrittenBeforeChildren ==
    \A mc \in ChildPages :
        \A i \in PageOps(mc[2]) : \E j \in OpsAt(<<"write", mc[1]>>) : j < i

\* C19: the renderer visits the module tree depth-first; the page of a
\* module is created before the pages of its children are generated and is
\* written after all of them.
C19_CreatedBeforeWrittenAfter ==
    \A mc \in ChildPages :
        \A i \in PageOps(mc[2]) :
            /\ \E j \in OpsAt(<<"create", mc[1]>>) : j < i
            /\ \A j \in OpsAt(<<"write", mc[1]>>) : i < j

\* k, its module a and a's struct Inner have all been written
C19_NestedWritten ==
    /\ pc = "done" /\ run.st = "Ok"
    /\ OpsAt(<<"write", <<"k", "a", "struct.Inner.html">>>>) # {}
    /\ OpsAt(<<"write", <<"k", "a", "index.html">>>>) # {}
    /\ OpsAt(<<"write", <<"k", "index.html">>>>) # {}

----------------------------------------------------------------------------
(* The search index, checked under SpecRender.                             *)

\* The paths of the files base_page created, in the order of creation
RECURSIVE Created(_)
Created(ops) ==
    IF ops = <<>> THEN <<>>
    ELSE IF Head(ops)[1] = "create" THEN <<Head(ops)[2]>> \o Created(Tail(ops))
    ELSE Created(Tail(ops))

\* The ids whose page, by krate.paths, is the file filepath
PageOwners(filepath) ==
    {id \in DOMAIN KratePaths :
        /\ prefix_item_kind(KratePaths[id].kind).st = "Some"
        /\ prefix_item_kind(KratePaths[id].kind).file
        /\ href_dest(KratePaths[id], prefix_item_kind(KratePaths[id].kind).kind) = filepath}

\* The modules above an item, root first, then the item itself
QualifiedComponents(id) ==
    [j \in 1..Len(KratePaths[id].path) |->
        [name |-> KratePaths[id].path[j],
         kind |-> IF j < Len(KratePaths[id].path) THEN "mod"
                  ELSE prefix_item_kind(KratePaths[id].kind).kind]]

RanOk == pc = "done" /\ run.st = "Ok"

\* C21: after a successful run the search index has one entry per page
\* base_page created, in the order of creation; its components are those of
\* the modules above the page, root first, then the page's own, and its
\* filepath is the file of the page.
C21_SearchIndexListsPages ==
    RanOk =>
        /\ Len(search) = Len(Created(fsops))
        /\ \A i \in 1..Len(search) :
               /\ search[i].filepath = Created(fsops)[i]
               /\ \E id \in PageOwners(search[i].filepath) :
                      search[i].components = QualifiedComponents(id)

\* k, its module a and a's struct Inner are listed
C21_NestedListed ==
    /\ RanOk
    /\ \E i \in 1..Len(search) :
           /\ search[i].filepath = <<"k", "a", "struct.Inner.html">>
           /\ search[i].components = <<[name |-> "k", kind |-> "mod"],
                                       [name |-> "a", kind |-> "mod"],
                                       [name |-> "Inner", kind |-> "struct"]>>

----------------------------------------------------------------------------
(* Shapes that are left out, checked under SpecShapes.                     *)

Written(page) == OpsAt(<<"write", page>>) # {}

\* C20: when the crate holds an item of a shape that is left out, the run
\* is not aborted and the pages of the other items are produced.
C20_FailureConfined ==
    (pc = "done" /\ Range(item.inner.items) \cap Unmodelled # {}) =>
        /\ run.st = "Ok"
        /\ Written(<<"k", "index.html">>)
        /\ PointId \in Range(item.inner.items) => Written(<<"k", "struct.Point.html">>)
        /\ ModAId \in Range(item.inner.items) => Written(<<"k", "a", "struct.Inner.html">>)

----------------------------------------------------------------------------
(* Properties of href, checked under SpecHref.                             *)

Linked == pc = "done" /\ IsSome(link_in)

\* C16: for an identifier whose id krate.paths lists as an item of an
\* external crate, href returns a link, made of the root URL of that crate
\* and the path of the page, exactly when the crate declares html_root_url;
\* when it declares none, href returns None and no <a> element is written.
C16_ExternalLinkIffRootUrl ==
    (Linked /\ IsExternal(Unwrap(link_in).id)) =>
        /\ link.href.st = "Some" <=> IsSome(Unwrap(link_in).html_root_url)
        /\ link.href.st = "Some" =>
               /\ link.href.external_crate_url = Unwrap(link_in).html_root_url
               /\ link.href.fragment = None
               /\ link.href.path[1] = "ext"
               /\ ends_with_html(link.href.path[Len(link.href.path)])
        /\ ~IsSome(Unwrap(link_in).html_root_url) =>
               /\ link.href.st = "None"
               /\ "<a href=\"" \notin Range(link.html)

FragmentOnly(h) ==
    h.st = "Some" /\ h.path = <<>> /\ ~IsSome(h.external_crate_url) /\ IsSome(h.fragment)

\* C18: a fragment-only link that href returns names an HTML id assigned to
\* an element of the page being rendered.
C18_FragmentIsPageId ==
    (Linked /\ FragmentOnly(link.href)) => Unwrap(link.href.fragment) \in page_ids(item, index)

----------------------------------------------------------------------------
(* Properties of relative, checked under SpecRelative.                     *)

\* Following a relative path from a directory: ".." removes one directory,
\* any other component is entered.  ".." at the top has nowhere to go and
\* is kept.
RECURSIVE Resolve(_, _)
Resolve(dir, rel) ==
    IF rel = <<>> THEN dir
    ELSE IF Head(rel) = ".." /\ dir # <<>> /\ dir[Len(dir)] # ".."
    THEN Resolve(Parent(dir), Tail(rel))
    ELSE Resolve(Append(dir, Head(rel)), Tail(rel))

RECURSIVE CommonPrefixLen(_, _)
CommonPrefixLen(a, b) ==
    IF a # <<>> /\ b # <<>> /\ Head(a) = Head(b)
    THEN 1 + CommonPrefixLen(Tail(a), Tail(b))
    ELSE 0

Related == pc = "done" /\ IsSome(link_in)

\* C17: resolving relative(base, target) against the directory that contains
\* base yields target, and the result has one ".." per directory of base
\* beyond the common prefix of the two directories.
C17_RelativeResolves ==
    Related =>
        /\ Resolve(Parent(Unwrap(link_in).base), link) = Unwrap(link_in).url
        /\ Count(link, "..")
               = Len(Parent(Unwrap(link_in).base))
                 - CommonPrefixLen(Parent(Unwrap(link_in).base), Parent(Unwrap(link_in).url))

\* from k/a/struct.Point.html to k/ext/index.html: one directory up, one down
C17_UpAndDown ==
    /\ Related
    /\ Unwrap(link_in).base = <<"k", "a", "struct.Point.html">>
    /\ Unwrap(link_in).url = <<"k", "ext", "index.html">>
    /\ link = <<"..", "ext", "index.html">>

----------------------------------------------------------------------------
(* Properties of TokensToHtml::render, checked under SpecTokensToHtml.     *)

WhereOpen == "<span class=\"where-clause\">"

TokenOpens == {"<span", "<span class=\"kw\">", "<span class=\"ponct\">",
               "<span class=\"attr\">", "<span class=\"primitive\">"}

\* The tag written last before position i of the strings, "" if none
RECURSIVE PrevTag(_, _)
PrevTag(pieces, i) ==
    IF i <= 1 THEN ""
    ELSE IF pieces[i - 1] \in TokenOpens \cup {WhereOpen, "</span>"} THEN pieces[i - 1]
    ELSE PrevTag(pieces, i - 1)

\* The positions where a where-clause span is opened, and those where one is
\* closed: the closing tags that do not close the span of a token
WhereOpens(pieces) == {i \in 1..Len(pieces) : pieces[i] = WhereOpen}

WhereCloses(pieces) ==
    {i \in 1..Len(pieces) : pieces[i] = "</span>" /\ PrevTag(pieces, i) \notin TokenOpens}

\* Opening and closing alternate, an opening first and a closing last
WhereBalanced(pieces) ==
    /\ \A o \in WhereOpens(pieces) :
           \E c \in WhereCloses(pieces) :
               /\ o < c
               /\ \A k \in WhereOpens(pieces) \cup WhereCloses(pieces) : ~(o < k /\ k < c)
    /\ \A c \in WhereCloses(pieces) :
           \E o \in WhereOpens(pieces) :
               /\ o < c
               /\ \A k \in WhereOpens(pieces) \cup WhereCloses(pieces) : ~(o < k /\ k < c)

\* C28: the where-clause markup of every rendered item is balanced: at most
\* one where-clause span is open at any time and every one opened is closed
\* exactly once, at the first following ";" or "{" or at the end, so that the
\* closing tags are as many as the opening ones.
C28_WhereClauseBalanced ==
    pc = "rendered" =>
        /\ WhereBalanced(html)
        /\ Count(html, "</span>")
               = Count(html, WhereOpen) + Count(html, "<span")
                 + Count(html, "<span class=\"kw\">") + Count(html, "<span class=\"ponct\">")
                 + Count(html, "<span class=\"attr\">")
                 + Count(html, "<span class=\"primitive\">")

\* a trait with a where clause of its own and two members with one each
\* was rendered: three where-clause spans, one after the other
C28_WhereClauseRendered ==
    /\ pc = "rendered"
    /\ Count(html, WhereOpen) = 3
    /\ Count(result.toks, Kw("where")) = 3
    /\ \E i \in 1..Len(result.toks) :
           /\ result.toks[i] = Kw("where")
           /\ \E j \in (i + 1)..Len(result.toks) : result.toks[j] = Ponct("{")

----------------------------------------------------------------------------
(* Properties of the Headings adapter, checked under SpecHeadings.         *)

\* C29: the HTML ids allocated in page_context.ids for the anchors of one
\* page are pairwise distinct, whatever the documentation text, two headings
\* of the same text included.
C29_IdsDistinct ==
    \A i, j \in DOMAIN html_ids : i # j => html_ids[i] # html_ids[j]

\* C30: for a heading of every source level 1 to 6 the adapter returns the
\* markup of the heading without panicking, and the level it emits, the
\* source level plus one, is a level of HTML, h1 to h6.
C30_HeadingLevelValid ==
    /\ pc # "panic"
    /\ IsSome(headings.toc) =>
           \A i \in DOMAIN Unwrap(headings.toc) : Unwrap(headings.toc)[i][1] \in 1..6

====
